---- MODULE Spec2Model ----
(***************************************************************************)
(* Model of the LVGL icon tools: the three icon generators                 *)
(* (tools/lvgl_icon_generator/generator.py, generator_cli.py,              *)
(* generator_simple.py) and the decoders of tools/lvgl_image_viewer/       *)
(* viewer.py.  A pixel is a tuple <<r, g, b, a>> of bytes; a byte buffer   *)
(* is a sequence of naturals below 256.  Python's None result of a decoder *)
(* is the record NoneResult.                                               *)
(***************************************************************************)
EXTENDS Integers, Sequences, FiniteSets, TLC

VARIABLES
    tool,               \* which generator program is running
    icon_name,          \* self.icon_name / --name, a sequence of characters
    input_data,         \* self.input_data / the caller's pixel_data list
    image_width,        \* self.image_width / --width
    image_height,       \* self.image_height / --height
    use_chroma_key,     \* generator.py self.use_chroma_key
    chroma_key_value,   \* generator.py int(self.chroma_key_value, 16)
    f_a8r3g3b2,         \* generator.py format check boxes
    f_a8r5g6b5,
    f_a8r5g6b5_swap,
    f_r8g8b8a8,
    c_content,          \* the guarded blocks of the last generated array body
    raw_data,           \* generator_simple.py raw data box / generator_cli.py --data values
    input_format,       \* generator_simple.py: self.input_format
    img,                \* viewer.py LvglImage: width, height, data_size, data_bytes
    call,               \* viewer.py: the last decoder call and its arguments
    rgba,               \* viewer.py: the result of the last decoder call
    chan,               \* one colour channel on its way through encoder and decoder
    c_file,             \* the C file on disk: descriptor name, format, size, array body
    parsed,             \* viewer.py: what parse_lvgl_c_file made of c_file
    exit_status         \* generator_cli.py: the value returned by main

vars == <<tool, icon_name, input_data, image_width, image_height, use_chroma_key,
          chroma_key_value, f_a8r3g3b2, f_a8r5g6b5, f_a8r5g6b5_swap, f_r8g8b8a8,
          c_content, raw_data, input_format, img, call, rgba, chan, c_file, parsed,
          exit_status>>

genVars == <<tool, icon_name, input_data, image_width, image_height, use_chroma_key,
             chroma_key_value, f_a8r3g3b2, f_a8r5g6b5, f_a8r5g6b5_swap,
             f_r8g8b8a8, c_content>>
rawVars == <<raw_data, input_format>>
viewVars == <<img, call, rgba>>
parseVars == <<c_file, parsed>>
cliVars == <<exit_status>>

(***************************************************************************)
(* Bounds of the model.                                                    *)
(***************************************************************************)
MaxDim == 2
MaxPixels == 3
MaxRaw == 4
MaxData == 6
MaxStride == 4
MaxIndexBytes == 2
MaxLits == 2
MaxName == 2
MaxCliPixels == 5

(***************************************************************************)
(* Input values.                                                           *)
(***************************************************************************)
Red == <<255, 0, 0, 255>>
Green == <<0, 255, 0, 255>>
Blue == <<0, 0, 255, 255>>
Transparent == <<0, 0, 0, 0>>
Black == <<0, 0, 0, 255>>
Mixed == <<200, 100, 50, 128>>

PixelSet == {Red, Transparent, Black, Mixed}

\* The 2x2 buffer of the RGB565_A8 scenario.
ScenarioBuffer == <<Red, Green, Blue, Transparent>>

\* A 32-bit unsigned value is the pair <<high 16 bits, low 16 bits>>.
Word32(hi, lo) == <<hi, lo>>
Small(n) == Word32(0, n)

\* Chroma keys typed into generator.py: the default 0x00, red as RGB332 (0xE0),
\* red as RGB565 (0xF800), opaque red as a 32-bit R,G,B,A value (0xFF0000FF).
GenKeys == {Small(0), Small(224), Small(63488), Word32(65280, 255)}

Dims == 1..MaxDim

RECURSIVE SeqsUpTo(_, _)
SeqsUpTo(S, n) ==
    IF n = 0 THEN {<<>>}
    ELSE LET shorter == SeqsUpTo(S, n - 1)
         IN  shorter \cup {Append(s, x) : s \in {t \in shorter : Len(t) = n - 1}, x \in S}

PixelInputs == SeqsUpTo(PixelSet, MaxPixels) \cup {ScenarioBuffer}

(***************************************************************************)
(* Helpers: Python list operations.                                        *)
(***************************************************************************)
RECURSIVE Flatten(_)
Flatten(ss) == IF ss = <<>> THEN <<>> ELSE Head(ss) \o Flatten(Tail(ss))

Repeat(x, n) == [i \in 1..n |-> x]

\* data[a:b] for 0 <= a <= b (Python slice, 0-based, clipped to the length).
Slice(data, a, b) ==
    LET hi == IF b < Len(data) THEN b ELSE Len(data)
    IN  IF a >= hi THEN <<>> ELSE SubSeq(data, a + 1, hi)

(***************************************************************************)
(* Channel quantisation of the encoders.                                   *)
(***************************************************************************)
Quant3(v) == (v \div 32) % 8
Quant2(v) == (v \div 64) % 4
\* The 5-bit channel taken with the 6-bit channel's shift.
Quant5_Shift2(v) == (v \div 4) % 32
Quant5(v) == (v \div 8) % 32
Quant6(v) == (v \div 4) % 64

RGB332Word(p) == Quant3(p[1]) * 32 + Quant3(p[2]) * 4 + Quant2(p[3])
RGB565Word(p) == Quant5(p[1]) * 2048 + Quant6(p[2]) * 32 + Quant5(p[3])
\* (r << 24) | (g << 16) | (b << 8) | a
RGBA32Word(p) == Word32(p[1] * 256 + p[2], p[3] * 256 + p[4])

(***************************************************************************)
(* The array body: a sequence of segments.                                 *)
(***************************************************************************)
IfSeg(cond) == [kind |-> "if", text |-> cond, bytes |-> <<>>, per_line |-> 0]
ElseSeg == [kind |-> "else", text |-> "", bytes |-> <<>>, per_line |-> 0]
EndifSeg == [kind |-> "endif", text |-> "", bytes |-> <<>>, per_line |-> 0]
CommentSeg(t) == [kind |-> "comment", text |-> t, bytes |-> <<>>, per_line |-> 0]
DataSeg(data, n) == [kind |-> "data", text |-> "", bytes |-> data, per_line |-> n]

Guard8 == "LV_COLOR_DEPTH == 1 || LV_COLOR_DEPTH == 8"
Guard16LE == "LV_COLOR_DEPTH == 16 && LV_COLOR_16_SWAP == 0"
Guard16Swap == "LV_COLOR_DEPTH == 16 && LV_COLOR_16_SWAP != 0"
Guard16 == "LV_COLOR_DEPTH == 16"
GuardNoSwap == "LV_COLOR_16_SWAP == 0"
Guard24 == "LV_COLOR_DEPTH == 24"
Guard32 == "LV_COLOR_DEPTH == 32"

\* Padding / truncation of the pixel list to width * height entries.
\* Padding placed in front of the pixels.
PadOrTruncate_PadFront(data, pixel_count) ==
    IF Len(data) < pixel_count
    THEN Repeat(Transparent, pixel_count - Len(data)) \o data
    ELSE Slice(data, 0, pixel_count)

PadOrTruncate(data, pixel_count) ==
    IF Len(data) < pixel_count
    THEN data \o Repeat(Transparent, pixel_count - Len(data))
    ELSE Slice(data, 0, pixel_count)

(***************************************************************************)
(* generator.py: LVGLIconGenerator.generate_color_depth_data               *)
(***************************************************************************)
\* The chroma-key tests of the four blocks.
GenKeyed8(p, use, key) == use /\ Small(RGB332Word(p)) = key
GenKeyed16(p, use, key) == use /\ Small(RGB565Word(p)) = key
GenKeyed32(p, use, key) == use /\ RGBA32Word(p) = key

GenPixelA8R3G3B2(p, use, key) ==
    LET color == RGB332Word(p)
    IN  IF GenKeyed8(p, use, key) THEN <<0, 0>> ELSE <<color, p[4]>>

\* The colour word written high byte first.
GenPixelRGB565A8_BigEndian(p, use, key) ==
    LET rgb565 == RGB565Word(p)
    IN  IF GenKeyed16(p, use, key) THEN <<0, 0, 0>>
        ELSE <<(rgb565 \div 256) % 256, rgb565 % 256, p[4]>>

GenPixelRGB565A8(p, use, key) ==
    LET rgb565 == RGB565Word(p)
    IN  IF GenKeyed16(p, use, key) THEN <<0, 0, 0>>
        ELSE <<rgb565 % 256, (rgb565 \div 256) % 256, p[4]>>

GenPixelRGB565A8Swap(p, use, key) ==
    LET rgb565 == RGB565Word(p)
    IN  IF GenKeyed16(p, use, key) THEN <<0, 0, 0>>
        ELSE <<(rgb565 \div 256) % 256, rgb565 % 256, p[4]>>

\* The 32-bit block written in B, G, R, A order.
GenPixelRGBA32_BGRA(p, use, key) ==
    IF GenKeyed32(p, use, key) THEN <<0, 0, 0, 0>> ELSE <<p[3], p[2], p[1], p[4]>>

GenPixelRGBA32(p, use, key) ==
    IF GenKeyed32(p, use, key) THEN <<0, 0, 0, 0>> ELSE <<p[1], p[2], p[3], p[4]>>

GenBlock8(data, w, use, key) ==
    << IfSeg(Guard8),
       CommentSeg("Pixel format: Alpha 8 bit, Red: 3 bit, Green: 3 bit, Blue: 2 bit"),
       DataSeg(Flatten([i \in 1..Len(data) |-> GenPixelA8R3G3B2(data[i], use, key)]), w * 2),
       EndifSeg >>

GenBlock16(data, w, use, key) ==
    << IfSeg(Guard16LE),
       CommentSeg("Pixel format: Alpha 8 bit, Red: 5 bit, Green: 6 bit, Blue: 5 bit"),
       DataSeg(Flatten([i \in 1..Len(data) |-> GenPixelRGB565A8(data[i], use, key)]), w * 3),
       EndifSeg >>

GenBlock16Swap(data, w, use, key) ==
    << IfSeg(Guard16Swap),
       CommentSeg("Pixel format: Alpha 8 bit, Red: 5 bit, Green: 6 bit, Blue: 5 bit, SWAPPED"),
       DataSeg(Flatten([i \in 1..Len(data) |-> GenPixelRGB565A8Swap(data[i], use, key)]), w * 3),
       EndifSeg >>

GenBlock32(data, w, use, key) ==
    << IfSeg(Guard32),
       CommentSeg("Pixel format: Red: 8 bit, Green: 8 bit, Blue: 8 bit, Alpha: 8 bit"),
       DataSeg(Flatten([i \in 1..Len(data) |-> GenPixelRGBA32(data[i], use, key)]), w * 4),
       EndifSeg >>

GenColorDepthData(data, w, use, key, e8, e16, e16s, e32) ==
    (IF e8 THEN GenBlock8(data, w, use, key) ELSE <<>>)
    \o (IF e16 THEN GenBlock16(data, w, use, key) ELSE <<>>)
    \o (IF e16s THEN GenBlock16Swap(data, w, use, key) ELSE <<>>)
    \o (IF e32 THEN GenBlock32(data, w, use, key) ELSE <<>>)

(***************************************************************************)
(* generator_simple.py: SimpleLVGLIconGenerator.generate_color_depth_data  *)
(* generator_cli.py: generate_color_depth_data                             *)
(***************************************************************************)
\* The 1/8-bit block of both: one byte per pixel, 0x00 or 0xFF by alpha.
SimplePixel8(p) == IF p[4] < 128 THEN <<0>> ELSE <<IF p[4] >= 128 THEN 255 ELSE 0>>

\* The little-endian RGB565 + alpha block of both.
SimplePixel16(p) ==
    IF p[4] < 8 THEN <<0, 0, 0>>
    ELSE LET rgb565 == RGB565Word(p)
         IN  <<rgb565 % 256, (rgb565 \div 256) % 256, p[4]>>

\* generator_simple.py only: the "swapped" block exchanges red and blue.
SimplePixel16Swap(p) ==
    IF p[4] < 8 THEN <<0, 0, 0>>
    ELSE LET bgr565 == Quant5(p[3]) * 2048 + Quant6(p[2]) * 32 + Quant5(p[1])
         IN  <<bgr565 % 256, (bgr565 \div 256) % 256, p[4]>>

SimplePixel24(p) == IF p[4] < 128 THEN <<0, 0, 0>> ELSE <<p[1], p[2], p[3]>>

SimplePixel32(p) == <<p[1], p[2], p[3], p[4]>>

SimpleBlock8(data) ==
    << IfSeg(Guard8),
       CommentSeg("Pixel format: Alpha 8 bit, Red: 3 bit, Green: 3 bit, Blue: 2 bit"),
       DataSeg(Flatten([i \in 1..Len(data) |-> SimplePixel8(data[i])]), 24),
       EndifSeg >>

SimpleBlock24(data) ==
    << IfSeg(Guard24),
       CommentSeg("Pixel format: Red: 8 bit, Green: 8 bit, Blue: 8 bit"),
       DataSeg(Flatten([i \in 1..Len(data) |-> SimplePixel24(data[i])]), 24),
       EndifSeg >>

SimpleBlock32(data) ==
    << IfSeg(Guard32),
       CommentSeg("Pixel format: Red: 8 bit, Green: 8 bit, Blue: 8 bit, Alpha: 8 bit"),
       DataSeg(Flatten([i \in 1..Len(data) |-> SimplePixel32(data[i])]), 24),
       EndifSeg >>

SimpleColorDepthData(data) ==
    SimpleBlock8(data)
    \o << IfSeg(Guard16), IfSeg(GuardNoSwap),
          CommentSeg("Pixel format: Alpha 8 bit, Red: 5 bit, Green: 6 bit, Blue: 5 bit"),
          DataSeg(Flatten([i \in 1..Len(data) |-> SimplePixel16(data[i])]), 24),
          EndifSeg,
          ElseSeg,
          CommentSeg("Pixel format: Alpha 8 bit, Red: 5 bit, Green: 6 bit, Blue: 5 bit (swapped)"),
          DataSeg(Flatten([i \in 1..Len(data) |-> SimplePixel16Swap(data[i])]), 24),
          EndifSeg, EndifSeg >>
    \o SimpleBlock24(data)
    \o SimpleBlock32(data)

CliColorDepthData(data) ==
    SimpleBlock8(data)
    \o << IfSeg(Guard16),
          CommentSeg("Pixel format: Alpha 8 bit, Red: 5 bit, Green: 6 bit, Blue: 5 bit"),
          DataSeg(Flatten([i \in 1..Len(data) |-> SimplePixel16(data[i])]), 24),
          EndifSeg >>
    \o SimpleBlock24(data)
    \o SimpleBlock32(data)

(***************************************************************************)
(* The array body as text: a sequence of tokens.  A guard line carries its *)
(* condition text, a comment its text, a numeric literal its digits (the   *)
(* digits after "0x" for a hexadecimal literal).                           *)
(***************************************************************************)
Tok(kind, text, digits) == [kind |-> kind, text |-> text, digits |-> digits]
HexLit(digits) == Tok("hex", "", digits)
DecLit(digits) == Tok("dec", "", digits)

\* f"0x{byte:02x}"
FormatByte(byte) == HexLit(<<byte \div 16, byte % 16>>)

\* format_byte_array: the bytes as 0x.. literals separated by commas.
format_byte_array(data) == [i \in 1..Len(data) |-> FormatByte(data[i])]

\* The text of one segment of the array body.
SegmentTokens(seg) ==
    CASE seg.kind = "if" -> <<Tok("if", seg.text, <<>>)>>
      [] seg.kind = "else" -> <<Tok("else", "", <<>>)>>
      [] seg.kind = "endif" -> <<Tok("endif", "", <<>>)>>
      [] seg.kind = "comment" -> <<Tok("comment", seg.text, <<>>)>>
      [] seg.kind = "data" -> format_byte_array(seg.bytes)

\* cf = "LV_IMG_CF_TRUE_COLOR_ALPHA"
TrueColorAlpha == "LV_IMG_CF_TRUE_COLOR_ALPHA"

\* The default icon name "icon_example" and the suffix of the array name.
DefaultName == <<"i", "c", "o", "n", "_", "e", "x", "a", "m", "p", "l", "e">>
MapSuffix == <<"_", "m", "a", "p">>

\* The file written by generate_c_file: the array '<name>_map[]' with its body
\* and the descriptor 'lv_img_dsc_t <name>' with its format, width and height
\* and its data field '<name>_map'.
WrittenFile(name, w, h, content) ==
    [name |-> name, cf |-> TrueColorAlpha, width |-> w, height |-> h,
     body |-> Flatten([i \in 1..Len(content) |-> SegmentTokens(content[i])]),
     written |-> TRUE]

(***************************************************************************)
(* The generators as a state machine.                                      *)
(***************************************************************************)
Tools == {"generator", "generator_simple", "generator_cli"}

NoCall == [fn |-> "none", bits |-> 0, depth |-> "", swap16 |-> FALSE,
           stride |-> 0, key |-> Small(0)]
NoneResult == [is_none |-> TRUE, bytes |-> <<>>]
Some(b) == [is_none |-> FALSE, bytes |-> b]
NoImg == [width |-> 0, height |-> 0, data_size |-> 0, data_bytes |-> <<>>]
NoChan == [pc |-> "idle", bits |-> 0, v |-> 0, code |-> 0, out |-> 0]
NoFile == [name |-> <<>>, cf |-> "", width |-> 0, height |-> 0, body |-> <<>>,
           written |-> FALSE]
NoParse == [state |-> "none"]
NoStatus == [returned |-> FALSE, code |-> 0]
Returned(code) == [returned |-> TRUE, code |-> code]

RestIdle ==
    /\ c_file = NoFile
    /\ parsed = NoParse
    /\ exit_status = NoStatus
    /\ raw_data = <<>>
    /\ input_format = "RGBA_8888"
    /\ img = NoImg
    /\ call = NoCall
    /\ rgba = NoneResult
    /\ chan = NoChan

\* A generator with pixel data loaded and its options set, before generation.
Init ==
    /\ tool \in Tools
    /\ icon_name = DefaultName
    /\ input_data \in PixelInputs
    /\ image_width \in Dims
    /\ image_height \in Dims
    /\ \/ use_chroma_key = FALSE /\ chroma_key_value = Small(0)
       \/ tool = "generator" /\ use_chroma_key = TRUE /\ chroma_key_value \in GenKeys
    /\ f_a8r3g3b2 = TRUE
    /\ f_a8r5g6b5 = TRUE
    /\ f_a8r5g6b5_swap = TRUE
    /\ f_r8g8b8a8 = TRUE
    /\ c_content = <<>>
    /\ RestIdle

\* generator.py generate_c_content -> generate_color_depth_data: the list held
\* by the object is padded in place or replaced by its truncation.
Generate ==
    /\ tool = "generator"
    /\ input_data # <<>>            \* generate_c_file: "No input data loaded"
    /\ LET data == PadOrTruncate(input_data, image_width * image_height)
       IN  /\ input_data' = data
           /\ c_content' = GenColorDepthData(data, image_width, use_chroma_key,
                                chroma_key_value, f_a8r3g3b2, f_a8r5g6b5,
                                f_a8r5g6b5_swap, f_r8g8b8a8)
    /\ UNCHANGED <<tool, icon_name, image_width, image_height, use_chroma_key, chroma_key_value,
                   f_a8r3g3b2, f_a8r5g6b5, f_a8r5g6b5_swap, f_r8g8b8a8>>
    /\ c_file' = WrittenFile(icon_name, image_width, image_height, c_content')
    /\ UNCHANGED <<rawVars, cliVars, viewVars, chan, parsed>>

\* generator_simple.py generate_c_content -> generate_color_depth_data.
SimpleGenerate ==
    /\ tool = "generator_simple"
    /\ input_data # <<>>            \* generate_c_file: "No input data loaded"
    /\ LET data == PadOrTruncate(input_data, image_width * image_height)
       IN  /\ input_data' = data
           /\ c_content' = SimpleColorDepthData(data)
    /\ UNCHANGED <<tool, icon_name, image_width, image_height, use_chroma_key, chroma_key_value,
                   f_a8r3g3b2, f_a8r5g6b5, f_a8r5g6b5_swap, f_r8g8b8a8>>
    /\ c_file' = WrittenFile(icon_name, image_width, image_height, c_content')
    /\ UNCHANGED <<rawVars, cliVars, viewVars, chan, parsed>>

\* generator_cli.py generate_c_file: extend() pads the caller's list in place,
\* the truncating slice rebinds only the local name.
CliGenerate ==
    /\ tool = "generator_cli"
    /\ LET pixel_count == image_width * image_height
           data == PadOrTruncate(input_data, pixel_count)
       IN  /\ input_data' = IF Len(input_data) < pixel_count THEN data ELSE input_data
           /\ c_content' = CliColorDepthData(data)
    /\ UNCHANGED <<tool, icon_name, image_width, image_height, use_chroma_key, chroma_key_value,
                   f_a8r3g3b2, f_a8r5g6b5, f_a8r5g6b5_swap, f_r8g8b8a8>>
    /\ c_file' = WrittenFile(icon_name, image_width, image_height, c_content')
    /\ UNCHANGED <<rawVars, cliVars, viewVars, chan, parsed>>

Next == Generate \/ SimpleGenerate \/ CliGenerate

Spec == Init /\ [][Next]_vars

(***************************************************************************)
(* viewer.py: the decoders.  An image is a record [width, height,          *)
(* data_size, data_bytes]; width, height or data_size 0 stands for a       *)
(* missing (None) or zero field, which the code treats alike.              *)
(***************************************************************************)
Pow2(n) == 2 ^ n

\* Channel expansion of the decoders: (code * 255) // (2^N - 1).
Expand5(c) == (c * 255) \div 31
Expand6(c) == (c * 255) \div 63
Expand3(c) == (c * 255) \div 7
Expand2(c) == (c * 255) \div 3

\* The default stride one byte too long.
EffectiveStride_Padded(stride, line_bytes) == IF stride = 0 THEN line_bytes + 1 ELSE stride

\* "if stride == 0: stride = line_bytes"
EffectiveStride(stride, line_bytes) == IF stride = 0 THEN line_bytes ELSE stride

\* (hi << 8) | lo after the optional swap16 exchange.
Word16(b0, b1, swap16) ==
    LET lo == IF swap16 THEN b1 ELSE b0
        hi == IF swap16 THEN b0 ELSE b1
    IN  hi * 256 + lo

ExpandRGB565(value) ==
    << Expand5((value \div 2048) % 32), Expand6((value \div 32) % 64), Expand5(value % 32) >>

ExpandRGB332(value) ==
    << Expand3((value \div 32) % 8), Expand3((value \div 4) % 8), Expand2(value % 4) >>

\* The per-pixel bodies of the true-colour decoders; px holds the pixel's bytes.
PixelRGB565(px, swap16) == ExpandRGB565(Word16(px[1], px[2], swap16)) \o <<255>>

PixelRGB332(px) == ExpandRGB332(px[1]) \o <<255>>

\* The key compared with the word before the swap16 exchange.
PixelChromaRGB565_KeyBeforeSwap(px, key, swap16) ==
    LET value == Word16(px[1], px[2], swap16)
    IN  IF Small(Word16(px[1], px[2], FALSE)) = key THEN <<0, 0, 0, 0>>
        ELSE ExpandRGB565(value) \o <<255>>

PixelChromaRGB565(px, key, swap16) ==
    LET value == Word16(px[1], px[2], swap16)
    IN  IF Small(value) = key THEN <<0, 0, 0, 0>> ELSE ExpandRGB565(value) \o <<255>>

PixelChromaRGB332(px, key) ==
    IF Small(px[1]) = key THEN <<0, 0, 0, 0>> ELSE ExpandRGB332(px[1]) \o <<255>>

\* struct.unpack_from('<I', data, di)
UnpackLE32(px) == Word32(px[4] * 256 + px[3], px[2] * 256 + px[1])

PixelChromaRGBA8888(px, key) ==
    IF UnpackLE32(px) = key THEN <<0, 0, 0, 0>> ELSE <<px[3], px[2], px[1], 255>>

PixelRGB888(px) == <<px[1], px[2], px[3], 255>>

PixelBGRA(px) == <<px[3], px[2], px[1], px[4]>>

PixelRGBA(px) == px

\* The fourth byte of XRGB8888 passed on as alpha.
PixelXRGB8888_KeepAlpha(px) == <<px[3], px[2], px[1], px[4]>>

PixelXRGB8888(px) == <<px[3], px[2], px[1], 255>>

\* The row loop shared by the true-colour decoders: pixel x of row y is read at
\* di = y * stride + x * bpp and written at oi = 4 * (y * w + x).  The result is
\* the bpp-byte groups of the pixels in output order.
TrueColorRows(data, w, h, stride, bpp) ==
    [k \in 1..(w * h) |->
        LET y == (k - 1) \div w
            x == (k - 1) % w
            di == y * stride + x * bpp
        IN  Slice(data, di, di + bpp)]

\* The geometry test on the width alone.
TrueColorReadable_WidthOnly(im, stride, bpp) ==
    /\ im.width # 0
    /\ EffectiveStride(stride, im.width * bpp) >= im.width * bpp
    /\ Len(im.data_bytes) >= im.height * EffectiveStride(stride, im.width * bpp)

\* The geometry, stride and length checks shared by the true-colour decoders:
\* TRUE when none of them returns None.
TrueColorReadable(im, stride, bpp) ==
    /\ im.width # 0 /\ im.height # 0
    /\ EffectiveStride(stride, im.width * bpp) >= im.width * bpp
    /\ Len(im.data_bytes) >= im.height * EffectiveStride(stride, im.width * bpp)

decode_true_color_rgb565(im, swap16, stride) ==
    IF ~TrueColorReadable(im, stride, 2) THEN NoneResult
    ELSE LET raw == TrueColorRows(im.data_bytes, im.width, im.height,
                                  EffectiveStride(stride, im.width * 2), 2)
         IN  Some(Flatten([k \in 1..Len(raw) |-> PixelRGB565(raw[k], swap16)]))

decode_true_color_rgb332(im, stride) ==
    IF ~TrueColorReadable(im, stride, 1) THEN NoneResult
    ELSE LET raw == TrueColorRows(im.data_bytes, im.width, im.height,
                                  EffectiveStride(stride, im.width * 1), 1)
         IN  Some(Flatten([k \in 1..Len(raw) |-> PixelRGB332(raw[k])]))

decode_true_color_chroma_keyed_rgb565(im, chroma_key, swap16, stride) ==
    IF ~TrueColorReadable(im, stride, 2) THEN NoneResult
    ELSE LET raw == TrueColorRows(im.data_bytes, im.width, im.height,
                                  EffectiveStride(stride, im.width * 2), 2)
         IN  Some(Flatten([k \in 1..Len(raw) |-> PixelChromaRGB565(raw[k], chroma_key, swap16)]))

decode_true_color_chroma_keyed_rgb332(im, chroma_key, stride) ==
    IF ~TrueColorReadable(im, stride, 1) THEN NoneResult
    ELSE LET raw == TrueColorRows(im.data_bytes, im.width, im.height,
                                  EffectiveStride(stride, im.width * 1), 1)
         IN  Some(Flatten([k \in 1..Len(raw) |-> PixelChromaRGB332(raw[k], chroma_key)]))

decode_true_color_chroma_keyed_rgba8888(im, chroma_key, stride) ==
    IF ~TrueColorReadable(im, stride, 4) THEN NoneResult
    ELSE LET raw == TrueColorRows(im.data_bytes, im.width, im.height,
                                  EffectiveStride(stride, im.width * 4), 4)
         IN  Some(Flatten([k \in 1..Len(raw) |-> PixelChromaRGBA8888(raw[k], chroma_key)]))

decode_true_color_rgb888(im, stride) ==
    IF ~TrueColorReadable(im, stride, 3) THEN NoneResult
    ELSE LET raw == TrueColorRows(im.data_bytes, im.width, im.height,
                                  EffectiveStride(stride, im.width * 3), 3)
         IN  Some(Flatten([k \in 1..Len(raw) |-> PixelRGB888(raw[k])]))

decode_true_color_alpha_v7_bgra(im, stride) ==
    IF ~TrueColorReadable(im, stride, 4) THEN NoneResult
    ELSE LET raw == TrueColorRows(im.data_bytes, im.width, im.height,
                                  EffectiveStride(stride, im.width * 4), 4)
         IN  Some(Flatten([k \in 1..Len(raw) |-> PixelBGRA(raw[k])]))

decode_true_color_alpha_v8_rgba(im, stride) ==
    IF ~TrueColorReadable(im, stride, 4) THEN NoneResult
    ELSE LET raw == TrueColorRows(im.data_bytes, im.width, im.height,
                                  EffectiveStride(stride, im.width * 4), 4)
         IN  Some(Flatten([k \in 1..Len(raw) |-> PixelRGBA(raw[k])]))

decode_true_color_rgba8888(im, stride) ==
    IF ~TrueColorReadable(im, stride, 4) THEN NoneResult
    ELSE LET raw == TrueColorRows(im.data_bytes, im.width, im.height,
                                  EffectiveStride(stride, im.width * 4), 4)
         IN  Some(Flatten([k \in 1..Len(raw) |-> PixelXRGB8888(raw[k])]))

(***************************************************************************)
(* viewer.py: decode_alpha_to_grayscale and decode_indexed.  Both walk the *)
(* rows with an output cursor oi that advances only when a pixel is        *)
(* written; an IndexError on the data ends the current row.                *)
(***************************************************************************)
\* out[oi:oi+4] = bytes(four)
WriteAt(out, oi, four) ==
    [i \in 1..Len(out) |-> IF i > oi /\ i <= oi + 4 THEN four[i - oi] ELSE out[i]]

\* The code taken from the least significant end of the byte.
ExtractBits_LSBFirst(byte, bits, bit_in_byte) ==
    (byte \div Pow2(bit_in_byte)) % Pow2(bits)

\* The shifted byte without the mask.
ExtractBits_Unmasked(byte, bits, bit_in_byte) ==
    byte \div Pow2(8 - bits - bit_in_byte)

\* idx = (byte >> shift) & mask with shift = 8 - bits - bit_in_byte
ExtractBits(byte, bits, bit_in_byte) ==
    (byte \div Pow2(8 - bits - bit_in_byte)) % Pow2(bits)

\* The alpha code passed on unexpanded.
AlphaExpand_Raw(bits, idx) == idx

AlphaExpand(bits, idx) ==
    IF bits = 1 THEN (IF idx # 0 THEN 255 ELSE 0)
    ELSE IF bits = 2 THEN idx * 85
    ELSE IF bits = 4 THEN idx * 17
    ELSE idx

RECURSIVE AlphaRow(_, _, _, _, _, _)
AlphaRow(data, w, bits, line_start, x, st) ==
    IF x >= w THEN st
    ELSE LET bit_offset_in_line == x * bits
             byte_index == line_start + (bit_offset_in_line \div 8)
         IN  IF byte_index >= Len(data) THEN st
             ELSE LET idx == ExtractBits(data[byte_index + 1], bits, bit_offset_in_line % 8)
                      alpha == AlphaExpand(bits, idx)
                  IN  AlphaRow(data, w, bits, line_start, x + 1,
                               [oi |-> st.oi + 4,
                                out |-> WriteAt(st.out, st.oi, <<0, 0, 0, alpha>>)])

RECURSIVE AlphaRows(_, _, _, _, _, _, _)
AlphaRows(data, w, h, bits, stride, y, st) ==
    IF y >= h THEN st
    ELSE AlphaRows(data, w, h, bits, stride, y + 1,
                   AlphaRow(data, w, bits, y * stride, 0, st))

decode_alpha_to_grayscale(im, bits, stride) ==
    IF im.width = 0 \/ im.height = 0 THEN NoneResult
    ELSE LET line_bytes == (im.width * bits + 7) \div 8
             st == EffectiveStride(stride, line_bytes)
             expected_bytes == im.height * st
         IN  IF st < line_bytes THEN NoneResult
             ELSE IF im.data_size # 0 /\ im.data_size < expected_bytes THEN NoneResult
             ELSE Some(AlphaRows(im.data_bytes, im.width, im.height, bits, st, 0,
                                 [oi |-> 0, out |-> Repeat(0, im.width * im.height * 4)]).out)

\* Two bytes per palette entry whatever the depth tag.
PalStride_TwoBytes(depth) == 2

PalStride(depth) == IF depth = "32" THEN 4 ELSE IF depth = "16" THEN 3 ELSE 2

\* "if stride > 0: bytes_per_line = stride"
IndexedBytesPerLine(w, bits, stride) ==
    IF stride > 0 THEN stride ELSE (w * bits + 7) \div 8

PaletteEntry(raw, pal_stride, swap16) ==
    IF pal_stride = 4 THEN <<raw[3], raw[2], raw[1], raw[4]>>
    ELSE IF pal_stride = 3 THEN ExpandRGB565(Word16(raw[1], raw[2], swap16)) \o <<raw[3]>>
    ELSE ExpandRGB332(raw[1]) \o <<raw[2]>>

LoadPalette(palette_raw, colors, pal_stride, swap16) ==
    [i \in 1..colors |->
        PaletteEntry(Slice(palette_raw, (i - 1) * pal_stride, i * pal_stride),
                     pal_stride, swap16)]

\* st = [oi, out, bit]: output cursor, output buffer, bit_offset_in_line.
RECURSIVE IndexedRow(_, _, _, _, _, _, _)
IndexedRow(pixels_raw, palette, w, bits, line_start, x, st) ==
    IF x >= w THEN st
    ELSE LET byte_index == line_start + (st.bit \div 8)
         IN  IF byte_index >= Len(pixels_raw) THEN st
             ELSE LET idx == ExtractBits(pixels_raw[byte_index + 1], bits, st.bit % 8)
                  IN  IF idx < Len(palette)
                      THEN IndexedRow(pixels_raw, palette, w, bits, line_start, x + 1,
                                      [oi |-> st.oi + 4,
                                       out |-> WriteAt(st.out, st.oi, palette[idx + 1]),
                                       bit |-> st.bit + bits])
                      ELSE IndexedRow(pixels_raw, palette, w, bits, line_start, x + 1, st)

RECURSIVE IndexedRows(_, _, _, _, _, _, _, _)
IndexedRows(pixels_raw, palette, w, h, bits, bytes_per_line, y, st) ==
    IF y >= h THEN st
    ELSE IndexedRows(pixels_raw, palette, w, h, bits, bytes_per_line, y + 1,
                     IndexedRow(pixels_raw, palette, w, bits, y * bytes_per_line, 0,
                                [oi |-> st.oi, out |-> st.out, bit |-> 0]))

decode_indexed(im, bits, depth, swap16, stride) ==
    IF im.width = 0 \/ im.height = 0 THEN NoneResult
    ELSE LET colors == Pow2(bits)
             pal_stride == PalStride(depth)
             pal_bytes == colors * pal_stride
             data == im.data_bytes
         IN  IF Len(data) < pal_bytes THEN NoneResult
             ELSE LET palette_raw == Slice(data, 0, pal_bytes)
                      pixels_raw == Slice(data, pal_bytes, Len(data))
                      bytes_per_line == IndexedBytesPerLine(im.width, bits, stride)
                  IN  IF Len(pixels_raw) < im.height * bytes_per_line THEN NoneResult
                      ELSE Some(IndexedRows(pixels_raw,
                                    LoadPalette(palette_raw, colors, pal_stride, swap16),
                                    im.width, im.height, bits, bytes_per_line, 0,
                                    [oi |-> 0, out |-> Repeat(0, im.width * im.height * 4),
                                     bit |-> 0]).out)

(***************************************************************************)
(* The viewer as a state machine: an image with one pixel map selected,    *)
(* and one action per decoder the render step can dispatch to.             *)
(***************************************************************************)
ByteSet == {31, 248}
Strides == 0..MaxStride
BitDepths == {1, 2, 4, 8}
Depths == {"8", "16", "32"}
\* Chroma keys typed into the viewer: 0x1F, the default 0xF81F, 0xF81FF81F.
ViewKeys == {Small(31), Small(63519), Word32(63519, 63519)}

\* Width and height as parsed from the descriptor; 0 stands for a field that
\* is absent (None) or zero.
Geometries == (Dims \X Dims) \cup {<<0, 1>>, <<1, 0>>, <<0, 0>>}

\* Palette sizes colors * pal_stride: 1- and 2-bit indices at every depth,
\* 4- and 8-bit indices at depth '8'.
PaletteLengths ==
    {Pow2(b) * PalStride(d) : b \in {1, 2}, d \in Depths}
        \cup {Pow2(4) * PalStride("8"), Pow2(8) * PalStride("8")}

\* A palette table whose neighbouring bytes differ.
PaletteBytes(n) == [i \in 1..n |-> (i * 29) % 256]

\* Pixel maps: short byte strings, and palette tables followed by index bytes.
IndexedData ==
    {PaletteBytes(n) \o ix : n \in PaletteLengths,
                             ix \in SeqsUpTo(ByteSet, MaxIndexBytes) \ {<<>>}}

ImageData == SeqsUpTo(ByteSet, MaxData) \cup IndexedData

\* An image one pixel wider than the square ones: its 8-bit rows span more
\* bytes than its height.
WideGeometry == <<MaxDim + 1, MaxDim>>

GenIdle ==
    /\ tool = "viewer"
    /\ icon_name = DefaultName
    /\ input_data = <<>>
    /\ image_width = 1
    /\ image_height = 1
    /\ use_chroma_key = FALSE
    /\ chroma_key_value = Small(0)
    /\ f_a8r3g3b2 = TRUE
    /\ f_a8r5g6b5 = TRUE
    /\ f_a8r5g6b5_swap = TRUE
    /\ f_r8g8b8a8 = TRUE
    /\ c_content = <<>>

InitView ==
    /\ GenIdle
    /\ c_file = NoFile
    /\ parsed = NoParse
    /\ exit_status = NoStatus
    /\ raw_data = <<>>
    /\ input_format = "RGBA_8888"
    /\ chan = NoChan
    /\ \/ \E g \in Geometries, d \in ImageData :
              \E ds \in {0, g[1] * g[2]} :
                  img = [width |-> g[1], height |-> g[2], data_size |-> ds,
                         data_bytes |-> d]
       \/ \E d \in IndexedData :
              img = [width |-> WideGeometry[1], height |-> WideGeometry[2],
                     data_size |-> 0, data_bytes |-> d]
    /\ call = NoCall
    /\ rgba = NoneResult

\* The decoders are functions of the image and their arguments and keep nothing
\* between calls, so each behaviour makes one call on the selected image.
Called(fn, bits, depth, swap16, stride, key, result) ==
    /\ call.fn = "none"
    /\ call' = [fn |-> fn, bits |-> bits, depth |-> depth, swap16 |-> swap16,
                stride |-> stride, key |-> key]
    /\ rgba' = result
    /\ UNCHANGED <<genVars, rawVars, cliVars, img, chan, parseVars>>

DecodeRGB565 ==
    \E swap \in BOOLEAN, s \in Strides :
        Called("decode_true_color_rgb565", 0, "", swap, s, Small(0),
               decode_true_color_rgb565(img, swap, s))

DecodeRGB332 ==
    \E s \in Strides :
        Called("decode_true_color_rgb332", 0, "", FALSE, s, Small(0),
               decode_true_color_rgb332(img, s))

DecodeChromaRGB565 ==
    \E swap \in BOOLEAN, s \in Strides, k \in ViewKeys :
        Called("decode_true_color_chroma_keyed_rgb565", 0, "", swap, s, k,
               decode_true_color_chroma_keyed_rgb565(img, k, swap, s))

DecodeChromaRGB332 ==
    \E s \in Strides, k \in ViewKeys :
        Called("decode_true_color_chroma_keyed_rgb332", 0, "", FALSE, s, k,
               decode_true_color_chroma_keyed_rgb332(img, k, s))

DecodeChromaRGBA8888 ==
    \E s \in Strides, k \in ViewKeys :
        Called("decode_true_color_chroma_keyed_rgba8888", 0, "", FALSE, s, k,
               decode_true_color_chroma_keyed_rgba8888(img, k, s))

DecodeRGB888 ==
    \E s \in Strides :
        Called("decode_true_color_rgb888", 0, "", FALSE, s, Small(0),
               decode_true_color_rgb888(img, s))

DecodeAlphaV7 ==
    \E s \in Strides :
        Called("decode_true_color_alpha_v7_bgra", 0, "", FALSE, s, Small(0),
               decode_true_color_alpha_v7_bgra(img, s))

DecodeAlphaV8 ==
    \E s \in Strides :
        Called("decode_true_color_alpha_v8_rgba", 0, "", FALSE, s, Small(0),
               decode_true_color_alpha_v8_rgba(img, s))

DecodeRGBA8888 ==
    \E s \in Strides :
        Called("decode_true_color_rgba8888", 0, "", FALSE, s, Small(0),
               decode_true_color_rgba8888(img, s))

DecodeAlpha ==
    \E bits \in BitDepths, s \in Strides :
        Called("decode_alpha_to_grayscale", bits, "", FALSE, s, Small(0),
               decode_alpha_to_grayscale(img, bits, s))

DecodeIndexed ==
    \E bits \in BitDepths, depth \in Depths, swap \in BOOLEAN, s \in Strides :
        Called("decode_indexed", bits, depth, swap, s, Small(0),
               decode_indexed(img, bits, depth, swap, s))

NextView ==
    \/ DecodeRGB565
    \/ DecodeRGB332
    \/ DecodeChromaRGB565
    \/ DecodeChromaRGB332
    \/ DecodeChromaRGBA8888
    \/ DecodeRGB888
    \/ DecodeAlphaV7
    \/ DecodeAlphaV8
    \/ DecodeRGBA8888
    \/ DecodeAlpha
    \/ DecodeIndexed

SpecView == InitView /\ [][NextView]_vars

(***************************************************************************)
(* viewer.py: parse_lvgl_c_file on the array body of a file.               *)
(***************************************************************************)
\* The decimal literals the byte pattern finds inside a comment.
CommentNumbers(text) ==
    CASE text = "Pixel format: Alpha 8 bit, Red: 3 bit, Green: 3 bit, Blue: 2 bit"
              -> << <<8>>, <<3>>, <<3>>, <<2>> >>
      [] text = "Pixel format: Alpha 8 bit, Red: 5 bit, Green: 6 bit, Blue: 5 bit"
              -> << <<8>>, <<5>>, <<6>>, <<5>> >>
      [] text = "Pixel format: Alpha 8 bit, Red: 5 bit, Green: 6 bit, Blue: 5 bit, SWAPPED"
              -> << <<8>>, <<5>>, <<6>>, <<5>> >>
      [] text = "Pixel format: Alpha 8 bit, Red: 5 bit, Green: 6 bit, Blue: 5 bit (swapped)"
              -> << <<8>>, <<5>>, <<6>>, <<5>> >>
      [] text = "Pixel format: Red: 8 bit, Green: 8 bit, Blue: 8 bit"
              -> << <<8>>, <<8>>, <<8>> >>
      [] text = "Pixel format: Red: 8 bit, Green: 8 bit, Blue: 8 bit, Alpha: 8 bit"
              -> << <<8>>, <<8>>, <<8>>, <<8>> >>
      [] OTHER -> <<>>

\* int(digits, base)
RECURSIVE DigitsValue(_, _)
DigitsValue(digits, base) ==
    IF digits = <<>> THEN 0
    ELSE DigitsValue(SubSeq(digits, 1, Len(digits) - 1), base) * base
         + digits[Len(digits)]

\* 0x([0-9a-fA-F]{1,2}): the first one or two digits after "0x" match; what follows
\* them in the same literal starts at no word boundary and matches nothing.
HexBytes(digits) ==
    IF digits = <<>> THEN <<>>
    ELSE <<DigitsValue(SubSeq(digits, 1, IF Len(digits) < 2 THEN Len(digits) ELSE 2), 16)>>

\* \b(\d{1,3})\b, then "if 0 <= iv <= 255".
DecBytes(digits) ==
    IF Len(digits) \in 1..3 /\ DigitsValue(digits, 10) <= 255
    THEN <<DigitsValue(digits, 10)>>
    ELSE <<>>

\* The bytes re.findall and the loop after it take from one token.
TokenBytes(tok) ==
    CASE tok.kind = "hex" -> HexBytes(tok.digits)
      [] tok.kind = "dec" -> DecBytes(tok.digits)
      [] tok.kind = "comment" ->
             Flatten([i \in 1..Len(CommentNumbers(tok.text)) |->
                         DecBytes(CommentNumbers(tok.text)[i])])
      [] OTHER -> <<>>

ExtractBytes(tokens) == Flatten([i \in 1..Len(tokens) |-> TokenBytes(tokens[i])])

IsGuard(tok) == tok.kind \in {"if", "elif", "if_nonl"}

SetMin(S) == CHOOSE m \in S : \A n \in S : m <= n

\* blocks[i+1] cut at its first '#endif': the tokens after guard g up to the next
\* guard line or '#endif'.
BlockData(body, g) ==
    LET stops == {j \in (g + 1)..Len(body) : IsGuard(body[j]) \/ body[j].kind = "endif"}
        stop == IF stops = {} THEN Len(body) + 1 ELSE SetMin(stops)
    IN  SubSeq(body, g + 1, stop - 1)

\* img.pixel_maps[condition] = bytes(buf)
PutMap(maps, condition, buf) ==
    [c \in (DOMAIN maps) \cup {condition} |-> IF c = condition THEN buf ELSE maps[c]]

RECURSIVE ParseBlocks(_, _, _)
ParseBlocks(body, g, maps) ==
    IF g > Len(body) THEN maps
    ELSE IF IsGuard(body[g])
         THEN ParseBlocks(body, g + 1,
                          PutMap(maps, body[g].text, ExtractBytes(BlockData(body, g))))
         ELSE ParseBlocks(body, g + 1, maps)

\* With text in front of the first guard, blocks[0] is kept and blocks[1] is the
\* bare separator '#if ': its split has no second element and the parser raises
\* IndexError.
\* A guard that ends the body without a line break ("if_nonl") has no second
\* element either.
ParseRaises(body) ==
    \/ /\ \E i \in 1..Len(body) : IsGuard(body[i])
       /\ ~IsGuard(body[1])
    \/ \E i \in 1..Len(body) : body[i].kind = "if_nonl"

parse_pixel_maps(body) ==
    IF \E i \in 1..Len(body) : IsGuard(body[i])
    THEN ParseBlocks(body, 1, <<>>)
    ELSE [c \in {"Default"} |-> ExtractBytes(body)]

\* [a-zA-Z0-9_] and \s, over the characters of the names used.
IsWordChar(ch) == ch \in {"a", "c", "e", "i", "l", "m", "n", "o", "p", "x", "_", "1"}
IsSpace(ch) == ch = " "

RECURSIVE SkipSpaces(_)
SkipSpaces(s) ==
    IF s # <<>> /\ IsSpace(s[1]) THEN SkipSpaces(Tail(s)) ELSE s

RECURSIVE WordPrefix(_)
WordPrefix(s) ==
    IF s # <<>> /\ IsWordChar(s[1]) THEN <<s[1]>> \o WordPrefix(Tail(s)) ELSE <<>>

AllSpaces(s) == \A i \in 1..Len(s) : IsSpace(s[i])

\* const\s+lv_img_dsc_t\s+([a-zA-Z0-9_]+)\s*=\s*\{ on 'lv_img_dsc_t <name> = {':
\* the captured name, or <<>> when the pattern finds no descriptor.
DescriptorName(name) ==
    LET t == SkipSpaces(name)
        w == WordPrefix(t)
    IN  IF w # <<>> /\ AllSpaces(SubSeq(t, Len(w) + 1, Len(t))) THEN w ELSE <<>>

\* \.data\s*=\s*([a-zA-Z0-9_]+) on '.data = <name>_map,'.
DataName(name) == WordPrefix(SkipSpaces(name \o MapSuffix))

\* uint8_t\s+<data_name>\s*\[ on 'uint8_t <name>_map[] = {'.
ArrayFound(name, data_name) ==
    LET t == SkipSpaces(name \o MapSuffix)
    IN  /\ data_name # <<>>
        /\ Len(data_name) <= Len(t)
        /\ SubSeq(t, 1, Len(data_name)) = data_name
        /\ AllSpaces(SubSeq(t, Len(data_name) + 1, Len(t)))

\* The dictionary returned holds at most one image: "none_found" is the empty
\* dictionary, "parsed" the image stored under the captured name.
parse_lvgl_c_file(file) ==
    IF DescriptorName(file.name) = <<>> THEN [state |-> "none_found"]
    ELSE IF ~ArrayFound(file.name, DataName(file.name))
    THEN [state |-> "parsed", name |-> DescriptorName(file.name), cf_name |-> file.cf,
          width |-> file.width, height |-> file.height,
          data_size |-> file.width * file.height, pixel_maps |-> <<>>]
    ELSE IF ParseRaises(file.body) THEN [state |-> "raised"]
    ELSE [state |-> "parsed", name |-> DescriptorName(file.name), cf_name |-> file.cf,
          width |-> file.width, height |-> file.height,
          data_size |-> file.width * file.height,
          pixel_maps |-> parse_pixel_maps(file.body)]

(***************************************************************************)
(* Generator and parser together: a file is written by generator.py or by  *)
(* hand and then read by the viewer.                                       *)
(***************************************************************************)
\* Literals of hand-written bodies: 0x1, 0xff, 0x123, 255, 256, 1234.
HandLiterals == {HexLit(<<1>>), HexLit(<<15, 15>>), HexLit(<<1, 2, 3>>),
                 DecLit(<<2, 5, 5>>), DecLit(<<2, 5, 6>>), DecLit(<<1, 2, 3, 4>>)}

\* "#if c1 / l1 / #endif / #if c2 / l2 / #endif" or "#if c1 / l1 / #elif c2 / l2 / #endif".
TwoBlocks(k2, c1, c2, l1, l2) ==
    <<Tok("if", c1, <<>>)>> \o l1
        \o (IF k2 = "elif" THEN <<>> ELSE <<Tok("endif", "", <<>>)>>)
        \o <<Tok(k2, c2, <<>>)>> \o l2 \o <<Tok("endif", "", <<>>)>>

\* Characters of icon names typed into the name field, and the names tried.
NameChars == {"a", "_", "1", "-", " "}
IconNames == {DefaultName} \cup SeqsUpTo(NameChars, MaxName)

HandBodies ==
    SeqsUpTo(HandLiterals, MaxLits)
        \cup {pre \o TwoBlocks(k2, "LV_COLOR_DEPTH == 8", c2, l1, l2) :
                  pre \in {<<>>, <<Tok("comment", "icon data", <<>>)>>, <<HexLit(<<1>>)>>},
                  k2 \in {"if", "elif"},
                  c2 \in {"LV_COLOR_DEPTH == 8", "LV_COLOR_DEPTH == 16"},
                  l1 \in SeqsUpTo(HandLiterals, MaxLits),
                  l2 \in SeqsUpTo(HandLiterals, MaxLits - 1)}
        \cup {l1 \o <<Tok("if_nonl", "LV_COLOR_DEPTH == 8", <<>>)>> :
                  l1 \in {<<>>, <<Tok("if", "LV_COLOR_DEPTH == 16", <<>>), HexLit(<<1>>),
                                  Tok("endif", "", <<>>)>>}}

InitParse ==
    /\ raw_data = <<>>
    /\ input_format = "RGBA_8888"
    /\ img = NoImg
    /\ call = NoCall
    /\ rgba = NoneResult
    /\ chan = NoChan
    /\ parsed = NoParse
    /\ exit_status = NoStatus
    /\ c_content = <<>>
    /\ \/ /\ tool = "generator"
          /\ icon_name = DefaultName
          /\ input_data \in PixelInputs
          /\ image_width \in Dims
          /\ image_height \in Dims
          /\ \/ use_chroma_key = FALSE /\ chroma_key_value = Small(0)
             \/ use_chroma_key = TRUE /\ chroma_key_value = Small(63488)
          /\ f_a8r3g3b2 \in BOOLEAN
          /\ f_a8r5g6b5 \in BOOLEAN
          /\ f_a8r5g6b5_swap \in BOOLEAN
          /\ f_r8g8b8a8 \in BOOLEAN
          /\ c_file = NoFile
       \/ /\ tool = "generator"
          /\ icon_name \in IconNames
          /\ input_data \in PixelInputs
          /\ image_width \in Dims
          /\ image_height \in Dims
          /\ use_chroma_key = FALSE /\ chroma_key_value = Small(0)
          /\ f_a8r3g3b2 = TRUE
          /\ f_a8r5g6b5 = TRUE
          /\ f_a8r5g6b5_swap = TRUE
          /\ f_r8g8b8a8 = TRUE
          /\ c_file = NoFile
       \/ /\ tool = "generator_simple"
          /\ icon_name = DefaultName
          /\ input_data \in PixelInputs
          /\ image_width \in Dims
          /\ image_height \in Dims
          /\ use_chroma_key = FALSE /\ chroma_key_value = Small(0)
          /\ f_a8r3g3b2 = TRUE
          /\ f_a8r5g6b5 = TRUE
          /\ f_a8r5g6b5_swap = TRUE
          /\ f_r8g8b8a8 = TRUE
          /\ c_file = NoFile
       \/ /\ GenIdle
          /\ c_file \in {[name |-> DefaultName, cf |-> TrueColorAlpha, width |-> 1,
                             height |-> 1, body |-> b, written |-> TRUE] :
                            b \in HandBodies}

\* load_file: the viewer parses the file on disk.
ParseFile ==
    /\ c_file.written
    /\ parsed = NoParse
    /\ exit_status = NoStatus
    /\ parsed' = parse_lvgl_c_file(c_file)
    /\ UNCHANGED <<genVars, rawVars, cliVars, viewVars, chan, c_file>>

NextParse == Generate \/ SimpleGenerate \/ ParseFile

SpecParse == InitParse /\ [][NextParse]_vars

(***************************************************************************)
(* generator_simple.py: parse_raw_data and convert_to_rgba.                *)
(***************************************************************************)
InputFormats == {"RGBA_8888", "RGB_888", "RGB565_ALPHA", "RGB565_SWAP_ALPHA"}

get_bytes_per_pixel(format_type) ==
    IF format_type = "RGBA_8888" THEN 4
    ELSE IF format_type = "RGB_888" THEN 3
    ELSE IF format_type \in {"RGB565_ALPHA", "RGB565_SWAP_ALPHA"} THEN 3
    ELSE 4

\* The RGB565 inputs expanded to full scale instead of shifted.
ConvertPixel_FullScale(px, format_type) ==
    IF format_type = "RGBA_8888" THEN <<px[1], px[2], px[3], px[4]>>
    ELSE IF format_type = "RGB_888" THEN <<px[1], px[2], px[3], 255>>
    ELSE LET rgb565 == px[1] + px[2] * 256
             hi5 == (((rgb565 \div 2048) % 32) * 255) \div 31
             mid6 == (((rgb565 \div 32) % 64) * 255) \div 63
             lo5 == ((rgb565 % 32) * 255) \div 31
         IN  IF format_type = "RGB565_ALPHA" THEN <<hi5, mid6, lo5, px[3]>>
             ELSE <<lo5, mid6, hi5, px[3]>>

\* One pixel of convert_to_rgba; px holds the pixel's bytes.
ConvertPixel(px, format_type) ==
    IF format_type = "RGBA_8888" THEN <<px[1], px[2], px[3], px[4]>>
    ELSE IF format_type = "RGB_888" THEN <<px[1], px[2], px[3], 255>>
    ELSE LET rgb565 == px[1] + px[2] * 256
             hi5 == ((rgb565 \div 2048) % 32) * 8
             mid6 == ((rgb565 \div 32) % 64) * 4
             lo5 == (rgb565 % 32) * 8
         IN  IF format_type = "RGB565_ALPHA" THEN <<hi5, mid6, lo5, px[3]>>
             ELSE <<lo5, mid6, hi5, px[3]>>

convert_to_rgba(pixel_data, format_type) ==
    LET bpp == get_bytes_per_pixel(format_type)
    IN  [i \in 1..(Len(pixel_data) \div bpp) |->
            ConvertPixel(Slice(pixel_data, (i - 1) * bpp, i * bpp), format_type)]

\* The bytes of the RGB565_A8 scenario: 00 F8 FF, E0 07 FF, 1F 00 FF, 00 00 00.
ScenarioBytes == <<0, 248, 255, 224, 7, 255, 31, 0, 255, 0, 0, 0>>
RawByteSet == {0, 248, 255}
RawInputs == SeqsUpTo(RawByteSet, MaxRaw) \cup {ScenarioBytes}

InitRaw ==
    /\ tool = "generator_simple"
    /\ icon_name = DefaultName
    /\ input_data = <<>>
    /\ image_width = 2
    /\ image_height = 2
    /\ use_chroma_key = FALSE
    /\ chroma_key_value = Small(0)
    /\ f_a8r3g3b2 = TRUE
    /\ f_a8r5g6b5 = TRUE
    /\ f_a8r5g6b5_swap = TRUE
    /\ f_r8g8b8a8 = TRUE
    /\ c_content = <<>>
    /\ raw_data \in RawInputs
    /\ c_file = NoFile
    /\ parsed = NoParse
    /\ exit_status = NoStatus
    /\ input_format \in InputFormats
    /\ img = NoImg
    /\ call = NoCall
    /\ rgba = NoneResult
    /\ chan = NoChan

\* parse_raw_data: empty text and a length that is no multiple of the pixel
\* size are reported and leave the object unchanged.
ParseRawData ==
    /\ tool = "generator_simple"
    /\ input_data' =
          IF raw_data = <<>> \/ Len(raw_data) % get_bytes_per_pixel(input_format) # 0
          THEN input_data
          ELSE convert_to_rgba(raw_data, input_format)
    /\ UNCHANGED <<tool, icon_name, image_width, image_height, use_chroma_key, chroma_key_value,
                   f_a8r3g3b2, f_a8r5g6b5, f_a8r5g6b5_swap, f_r8g8b8a8, c_content>>
    /\ UNCHANGED <<rawVars, cliVars, viewVars, chan, parseVars>>

NextRaw == ParseRawData \/ SimpleGenerate

SpecRaw == InitRaw /\ [][NextRaw]_vars

(***************************************************************************)
(* Repeated generation in the GUI tools: raw data is loaded from the text  *)
(* box, the size spin boxes are changed and the file is generated again.   *)
(***************************************************************************)
\* generator.py load_raw_data: RGBA values, four per pixel; empty text and a
\* count that is no multiple of four are reported and leave the object unchanged.
LoadRawData ==
    /\ tool = "generator"
    /\ input_data' =
          IF raw_data = <<>> \/ Len(raw_data) % 4 # 0
          THEN input_data
          ELSE [i \in 1..(Len(raw_data) \div 4) |->
                   <<raw_data[4 * i - 3], raw_data[4 * i - 2], raw_data[4 * i - 1],
                     raw_data[4 * i]>>]
    /\ UNCHANGED <<tool, icon_name, image_width, image_height, use_chroma_key, chroma_key_value,
                   f_a8r3g3b2, f_a8r5g6b5, f_a8r5g6b5_swap, f_r8g8b8a8, c_content>>
    /\ UNCHANGED <<rawVars, cliVars, viewVars, chan, parseVars>>

\* The width and height spin boxes.
SetSize ==
    /\ tool \in {"generator", "generator_simple"}
    /\ \E w \in Dims, h \in Dims :
          /\ <<w, h>> # <<image_width, image_height>>
          /\ image_width' = w
          /\ image_height' = h
    /\ UNCHANGED <<tool, icon_name, input_data, use_chroma_key, chroma_key_value,
                   f_a8r3g3b2, f_a8r5g6b5, f_a8r5g6b5_swap, f_r8g8b8a8, c_content>>
    /\ UNCHANGED <<rawVars, cliVars, viewVars, chan, parseVars>>

InitRegen ==
    /\ \/ tool = "generator" /\ input_format = "RGBA_8888"
       \/ tool = "generator_simple" /\ input_format \in InputFormats
    /\ icon_name = DefaultName
    /\ input_data = <<>>
    /\ image_width \in Dims
    /\ image_height \in Dims
    /\ use_chroma_key = FALSE
    /\ chroma_key_value = Small(0)
    /\ f_a8r3g3b2 = TRUE
    /\ f_a8r5g6b5 = TRUE
    /\ f_a8r5g6b5_swap = TRUE
    /\ f_r8g8b8a8 = TRUE
    /\ c_content = <<>>
    /\ raw_data \in RawInputs
    /\ c_file = NoFile
    /\ parsed = NoParse
    /\ exit_status = NoStatus
    /\ img = NoImg
    /\ call = NoCall
    /\ rgba = NoneResult
    /\ chan = NoChan

NextRegen == LoadRawData \/ ParseRawData \/ SetSize \/ Generate \/ SimpleGenerate

SpecRegen == InitRegen /\ [][NextRegen]_vars

(***************************************************************************)
(* generator_cli.py main: the command line --name, --width, --height and   *)
(* --data, the exit status and the file written.                           *)
(***************************************************************************)
\* A --data token that int(h, 16) rejects.
BadHex == -1

\* parse_hex_data raises ValueError: the number of values is not a multiple of
\* four, or a value is not hexadecimal.
ParseHexRaises(values) ==
    \/ Len(values) % 4 # 0
    \/ \E i \in 1..Len(values) : values[i] = BadHex

\* parse_hex_data: the list of (r, g, b, a) tuples.
parse_hex_data(values) ==
    [i \in 1..(Len(values) \div 4) |->
        <<values[4 * i - 3], values[4 * i - 2], values[4 * i - 1], values[4 * i]>>]

\* main, "Convert to RGBA tuples": the loop steps through data four entries at
\* a time and builds one tuple from each complete group of four entries.  The
\* entries of data are already pixels, so each tuple built holds four pixels.
MainPixelData(data) ==
    [i \in 1..(Len(data) \div 4) |->
        <<data[4 * i - 3], data[4 * i - 2], data[4 * i - 1], data[4 * i]>>]

\* generate_color_depth_data compares the fourth component of every entry with
\* a number; an entry made of four pixels has a tuple there and the
\* comparison raises TypeError.
CliMainRaises(groups, pixel_count) ==
    groups # <<>> /\ pixel_count > 0

Exit(status) ==
    /\ exit_status' = Returned(status)
    /\ UNCHANGED <<input_data, c_content, c_file>>

\* main with --name icon_name --width w --height h --data raw_data.
CliMain ==
    /\ tool = "generator_cli"
    /\ exit_status = NoStatus
    /\ IF raw_data = <<>> THEN Exit(1)      \* "Must provide --data, --file, or --example"
       ELSE IF ParseHexRaises(raw_data) THEN Exit(1)
       ELSE IF icon_name = <<>> THEN Exit(1)    \* "Must provide --name"
       ELSE LET groups == MainPixelData(parse_hex_data(raw_data))
                pixel_count == image_width * image_height
            IN  IF CliMainRaises(groups, pixel_count) THEN Exit(1)
                ELSE /\ input_data' = PadOrTruncate(<<>>, pixel_count)
                     /\ c_content' = CliColorDepthData(input_data')
                     /\ c_file' = WrittenFile(icon_name, image_width, image_height,
                                              c_content')
                     /\ exit_status' = Returned(0)
    /\ UNCHANGED <<tool, icon_name, image_width, image_height, use_chroma_key,
                   chroma_key_value, f_a8r3g3b2, f_a8r5g6b5, f_a8r5g6b5_swap,
                   f_r8g8b8a8>>
    /\ UNCHANGED <<raw_data, input_format, viewVars, chan, parsed>>

\* Command lines: the hex values of up to MaxCliPixels pixels, the same with the
\* last value missing, and the same with a value that is not hexadecimal.
CliPixels == {Red, Transparent, Mixed}
CliWellFormed == {Flatten(ps) : ps \in SeqsUpTo(CliPixels, MaxCliPixels)}
CliInputs ==
    CliWellFormed
      \cup {SubSeq(d, 1, Len(d) - 1) : d \in CliWellFormed \ {<<>>}}
      \cup {<<BadHex>> \o Tail(d) : d \in CliWellFormed \ {<<>>}}

InitCli ==
    /\ tool = "generator_cli"
    /\ icon_name \in {<<>>, DefaultName}
    /\ input_data = <<>>
    /\ image_width \in Dims
    /\ image_height \in Dims
    /\ use_chroma_key = FALSE
    /\ chroma_key_value = Small(0)
    /\ f_a8r3g3b2 = TRUE
    /\ f_a8r5g6b5 = TRUE
    /\ f_a8r5g6b5_swap = TRUE
    /\ f_r8g8b8a8 = TRUE
    /\ c_content = <<>>
    /\ raw_data \in CliInputs
    /\ input_format = "RGBA_8888"
    /\ c_file = NoFile
    /\ parsed = NoParse
    /\ exit_status = NoStatus
    /\ img = NoImg
    /\ call = NoCall
    /\ rgba = NoneResult
    /\ chan = NoChan

NextCli == CliMain

SpecCli == InitCli /\ [][NextCli]_vars

(***************************************************************************)
(* One colour channel: quantised by an encoder, expanded by a decoder.     *)
(***************************************************************************)
ChannelBits == {2, 3, 5, 6}

Quantize(bits, v) ==
    IF bits = 2 THEN Quant2(v)
    ELSE IF bits = 3 THEN Quant3(v)
    ELSE IF bits = 5 THEN Quant5(v)
    ELSE Quant6(v)

Expand(bits, c) ==
    IF bits = 2 THEN Expand2(c)
    ELSE IF bits = 3 THEN Expand3(c)
    ELSE IF bits = 5 THEN Expand5(c)
    ELSE Expand6(c)

InitChannel ==
    /\ GenIdle
    /\ c_file = NoFile
    /\ parsed = NoParse
    /\ exit_status = NoStatus
    /\ raw_data = <<>>
    /\ input_format = "RGBA_8888"
    /\ img = NoImg
    /\ call = NoCall
    /\ rgba = NoneResult
    /\ \E bits \in ChannelBits, v \in 0..255 :
          chan = [pc |-> "value", bits |-> bits, v |-> v, code |-> 0, out |-> 0]

EncodeChannel ==
    /\ chan.pc = "value"
    /\ chan' = [chan EXCEPT !.pc = "code", !.code = Quantize(chan.bits, chan.v)]
    /\ UNCHANGED <<genVars, rawVars, cliVars, viewVars, parseVars>>

DecodeChannel ==
    /\ chan.pc = "code"
    /\ chan' = [chan EXCEPT !.pc = "decoded", !.out = Expand(chan.bits, chan.code)]
    /\ UNCHANGED <<genVars, rawVars, cliVars, viewVars, parseVars>>

NextChannel == EncodeChannel \/ DecodeChannel

SpecChannel == InitChannel /\ [][NextChannel]_vars

(***************************************************************************)
(* Properties.                                                             *)
(***************************************************************************)
HasIf(content, g) == \E i \in 1..Len(content) : content[i] = IfSeg(g)
HasElse(content) == \E i \in 1..Len(content) : content[i] = ElseSeg

FirstDataAfter(content, i) ==
    CHOOSE j \in (i + 1)..Len(content) :
        /\ content[j].kind = "data"
        /\ \A k \in (i + 1)..(j - 1) : content[k].kind # "data"

\* The bytes emitted under the guard line "#if g".
BlockBytes(content, g) ==
    content[FirstDataAfter(content, CHOOSE i \in 1..Len(content) : content[i] = IfSeg(g))].bytes

\* The bytes emitted under the "#else" line.
ElseBytes(content) ==
    content[FirstDataAfter(content, CHOOSE i \in 1..Len(content) : content[i] = ElseSeg)].bytes

\* The n bytes of pixel i in a block of n bytes per pixel.
PixelBytesAt(block, i, n) == SubSeq(block, (i - 1) * n + 1, i * n)

PixelCount == image_width * image_height

AllZero(bs) == \A i \in 1..Len(bs) : bs[i] = 0

RGB565OfPixel(p) == (p[1] \div 8) * 2048 + (p[2] \div 4) * 32 + (p[3] \div 8)
RGB332OfPixel(p) == (p[1] \div 32) * 32 + (p[2] \div 32) * 4 + (p[3] \div 64)

\* C1: generator.py, chroma key disabled: the little-endian RGB565_A8 block holds,
\* for each pixel of the list in order, the three bytes [w mod 256, w div 256, a]
\* with w = ((r>>3)<<11) | ((g>>2)<<5) | (b>>3); the 2x2 scenario buffer gives
\* 00 F8 FF, E0 07 FF, 1F 00 FF, 00 00 00.
C1_LittleEndianBlock ==
    (tool = "generator" /\ ~use_chroma_key /\ HasIf(c_content, Guard16LE)) =>
        LET blk == BlockBytes(c_content, Guard16LE)
        IN  /\ Len(blk) = 3 * Len(input_data)
            /\ Len(input_data) = PixelCount
            /\ \A i \in 1..Len(input_data) :
                  LET w == RGB565OfPixel(input_data[i])
                  IN  PixelBytesAt(blk, i, 3) = <<w % 256, w \div 256, input_data[i][4]>>
            /\ (input_data = ScenarioBuffer => blk = ScenarioBytes)

C1_Witness ==
    /\ tool = "generator"
    /\ ~use_chroma_key
    /\ image_width = 2 /\ image_height = 2
    /\ input_data = ScenarioBuffer
    /\ HasIf(c_content, Guard16LE)
    /\ BlockBytes(c_content, Guard16LE) = ScenarioBytes

\* C3: in every generator the A8R3G3B2 block (guard LV_COLOR_DEPTH == 1 ||
\* LV_COLOR_DEPTH == 8) holds 2 bytes per pixel, the colour byte
\* ((r>>5)<<5) | ((g>>5)<<2) | (b>>6) and then an alpha byte: 2*width*height bytes.
C3_A8R3G3B2TwoBytesPerPixel ==
    (~use_chroma_key /\ HasIf(c_content, Guard8)) =>
        LET blk == BlockBytes(c_content, Guard8)
            data == Slice(input_data, 0, PixelCount)
        IN  /\ Len(blk) = 2 * PixelCount
            /\ \A i \in 1..PixelCount : blk[2 * i - 1] = RGB332OfPixel(data[i])

\* C4: in every generator that emits a byte-swapped RGB565_A8 block, each pixel's
\* three bytes are the little-endian block's bytes for that pixel with the two
\* colour bytes exchanged and the alpha byte unchanged.
C4_SwappedBlockExchangesColourBytes ==
    /\ (tool = "generator" /\ HasIf(c_content, Guard16LE) /\ HasIf(c_content, Guard16Swap)) =>
          LET le == BlockBytes(c_content, Guard16LE)
              sw == BlockBytes(c_content, Guard16Swap)
          IN  /\ Len(sw) = Len(le)
              /\ \A i \in 1..PixelCount :
                    PixelBytesAt(sw, i, 3) = <<le[3 * i - 1], le[3 * i - 2], le[3 * i]>>
    /\ (tool = "generator_simple" /\ HasIf(c_content, GuardNoSwap) /\ HasElse(c_content)) =>
          LET le == BlockBytes(c_content, GuardNoSwap)
              sw == ElseBytes(c_content)
          IN  /\ Len(sw) = Len(le)
              /\ \A i \in 1..PixelCount :
                    PixelBytesAt(sw, i, 3) = <<le[3 * i - 1], le[3 * i - 2], le[3 * i]>>

\* C5: generator.py, chroma key disabled: for a buffer of width*height pixels,
\* decoding the bytes of the LV_COLOR_DEPTH == 32 block with
\* decode_true_color_alpha_v8_rgba and stride 0 returns the original pixels.
C5_RoundTrip32 ==
    [][(/\ tool = "generator"
        /\ ~use_chroma_key
        /\ Len(input_data) = PixelCount
        /\ HasIf(c_content', Guard32))
       => decode_true_color_alpha_v8_rgba(
              [width |-> image_width, height |-> image_height,
               data_size |-> PixelCount,
               data_bytes |-> BlockBytes(c_content', Guard32)], 0)
          = Some(Flatten(input_data))]_vars

C5_Witness ==
    /\ tool = "generator"
    /\ ~use_chroma_key
    /\ image_width = 2 /\ image_height = 1
    /\ input_data = <<Mixed, Red>>
    /\ HasIf(c_content, Guard32)
    /\ decode_true_color_alpha_v8_rgba(
           [width |-> 2, height |-> 1, data_size |-> 2,
            data_bytes |-> BlockBytes(c_content, Guard32)], 0)
       = Some(<<200, 100, 50, 128, 255, 0, 0, 255>>)

\* C7: generator.py, chroma key enabled: in every block a pixel becomes the
\* block's all-zero bytes exactly when its colour quantised to the block's depth
\* equals the key, and that decision is the same for every alpha of the pixel.
C7_ChromaKeyDecisionIgnoresAlpha ==
    (tool = "generator" /\ use_chroma_key /\ HasIf(c_content, Guard32)) =>
        \A i \in 1..Len(input_data) :
            LET p == input_data[i]
                k == chroma_key_value
            IN  /\ GenKeyed8(p, TRUE, k) <=> (Small(RGB332OfPixel(p)) = k)
                /\ GenKeyed16(p, TRUE, k) <=> (Small(RGB565OfPixel(p)) = k)
                /\ GenKeyed8(p, TRUE, k) => AllZero(PixelBytesAt(BlockBytes(c_content, Guard8), i, 2))
                /\ GenKeyed16(p, TRUE, k) => AllZero(PixelBytesAt(BlockBytes(c_content, Guard16LE), i, 3))
                /\ GenKeyed16(p, TRUE, k) => AllZero(PixelBytesAt(BlockBytes(c_content, Guard16Swap), i, 3))
                /\ GenKeyed32(p, TRUE, k) => AllZero(PixelBytesAt(BlockBytes(c_content, Guard32), i, 4))
                /\ \A a \in {0, 128, 255} :
                      LET q == <<p[1], p[2], p[3], a>>
                      IN  /\ GenKeyed8(q, TRUE, k) = GenKeyed8(p, TRUE, k)
                          /\ GenKeyed16(q, TRUE, k) = GenKeyed16(p, TRUE, k)
                          /\ GenKeyed32(q, TRUE, k) = GenKeyed32(p, TRUE, k)

QuantStep(bits) == 255 \div (Pow2(bits) - 1)
AbsDiff(a, b) == IF a >= b THEN a - b ELSE b - a

\* C6: for every channel value v in 0..255, quantising with the encoder's shift
\* (v>>3, v>>2, v>>5, v>>6 for 5, 6, 3, 2 bits) and expanding with the decoder
\* (code*255 div (2^N-1)) gives a value within the quantisation step
\* 255/(2^N-1) of v: 8 for 5 bits, 4 for 6 bits, 36 for 3 bits, 85 for 2 bits.
C6_BoundedQuantizationError ==
    (chan.pc = "decoded") =>
        /\ AbsDiff(chan.out, chan.v) <= QuantStep(chan.bits)
        /\ QuantStep(chan.bits) =
              (IF chan.bits = 5 THEN 8 ELSE IF chan.bits = 6 THEN 4
               ELSE IF chan.bits = 3 THEN 36 ELSE 85)
        /\ chan.out \in 0..255

C6_Witness ==
    /\ chan.pc = "decoded"
    /\ chan.bits = 5
    /\ chan.v = 15
    /\ chan.code = 1
    /\ chan.out = 8

(***************************************************************************)
(* Properties of the decoders.                                             *)
(***************************************************************************)
ChromaDecoders == {"decode_true_color_chroma_keyed_rgb565",
                   "decode_true_color_chroma_keyed_rgb332",
                   "decode_true_color_chroma_keyed_rgba8888"}

\* Bytes per pixel of the true-colour decoders.
BytesPerPixel(fn) ==
    IF fn \in {"decode_true_color_rgb565", "decode_true_color_chroma_keyed_rgb565"} THEN 2
    ELSE IF fn \in {"decode_true_color_rgb332", "decode_true_color_chroma_keyed_rgb332"} THEN 1
    ELSE IF fn = "decode_true_color_rgb888" THEN 3
    ELSE 4

\* The format's minimal row size: width * bytes per pixel, or ceil(width * bits / 8).
MinRowSize(c, im) ==
    IF c.fn \in {"decode_alpha_to_grayscale", "decode_indexed"}
    THEN (im.width * c.bits + 7) \div 8
    ELSE im.width * BytesPerPixel(c.fn)

\* The decoder and arguments of call c applied to image im with stride s.
Redecode(c, im, s) ==
    CASE c.fn = "decode_true_color_rgb565" -> decode_true_color_rgb565(im, c.swap16, s)
      [] c.fn = "decode_true_color_rgb332" -> decode_true_color_rgb332(im, s)
      [] c.fn = "decode_true_color_chroma_keyed_rgb565" ->
             decode_true_color_chroma_keyed_rgb565(im, c.key, c.swap16, s)
      [] c.fn = "decode_true_color_chroma_keyed_rgb332" ->
             decode_true_color_chroma_keyed_rgb332(im, c.key, s)
      [] c.fn = "decode_true_color_chroma_keyed_rgba8888" ->
             decode_true_color_chroma_keyed_rgba8888(im, c.key, s)
      [] c.fn = "decode_true_color_rgb888" -> decode_true_color_rgb888(im, s)
      [] c.fn = "decode_true_color_alpha_v7_bgra" -> decode_true_color_alpha_v7_bgra(im, s)
      [] c.fn = "decode_true_color_alpha_v8_rgba" -> decode_true_color_alpha_v8_rgba(im, s)
      [] c.fn = "decode_true_color_rgba8888" -> decode_true_color_rgba8888(im, s)
      [] c.fn = "decode_alpha_to_grayscale" -> decode_alpha_to_grayscale(im, c.bits, s)
      [] c.fn = "decode_indexed" -> decode_indexed(im, c.bits, c.depth, c.swap16, s)

\* The raw colour word of the pixel whose bytes start at 0-based offset di.
RawWord(c, data, di) ==
    IF c.fn = "decode_true_color_chroma_keyed_rgb565"
    THEN Small(IF c.swap16 THEN data[di + 1] * 256 + data[di + 2]
                           ELSE data[di + 2] * 256 + data[di + 1])
    ELSE IF c.fn = "decode_true_color_chroma_keyed_rgb332"
    THEN Small(data[di + 1])
    ELSE Word32(data[di + 4] * 256 + data[di + 3], data[di + 2] * 256 + data[di + 1])

\* C8: in the chroma-keyed decoders (RGB565, RGB332, RGBA8888) every pixel whose
\* raw colour word (after the swap16 exchange for RGB565) equals the key decodes
\* to (0,0,0,0), and every other pixel decodes with alpha 255.
C8_ChromaKeyedDecode ==
    (call.fn \in ChromaDecoders /\ ~rgba.is_none) =>
        LET bpp == BytesPerPixel(call.fn)
            st == IF call.stride = 0 THEN img.width * bpp ELSE call.stride
        IN  /\ Len(rgba.bytes) = img.width * img.height * 4
            /\ \A y \in 0..(img.height - 1), x \in 0..(img.width - 1) :
                  LET px == PixelBytesAt(rgba.bytes, y * img.width + x + 1, 4)
                  IN  IF RawWord(call, img.data_bytes, y * st + x * bpp) = call.key
                      THEN px = <<0, 0, 0, 0>>
                      ELSE px[4] = 255

C8_Witness ==
    /\ call.fn = "decode_true_color_chroma_keyed_rgb565"
    /\ call.swap16
    /\ call.key = Small(63519)
    /\ img.width = 2
    /\ ~rgba.is_none
    /\ SubSeq(img.data_bytes, 1, 4) = <<248, 31, 31, 248>>
    /\ PixelBytesAt(rgba.bytes, 1, 4) = <<0, 0, 0, 0>>
    /\ PixelBytesAt(rgba.bytes, 2, 4)[4] = 255

\* C9: for every decoder and every input, decoding with an explicit stride equal
\* to the format's minimal row size gives the same result as decoding with
\* stride 0.
C9_StrideInvariance ==
    (call.fn # "none" /\ call.stride = MinRowSize(call, img)) =>
        rgba = Redecode(call, img, 0)

C9_Witness ==
    /\ call.fn = "decode_indexed"
    /\ call.stride = MinRowSize(call, img)
    /\ img.height = 2
    /\ ~rgba.is_none
    /\ rgba = Redecode(call, img, 0)

\* Bytes in front of the rows: the palette of decode_indexed.
RowsOffset(c) == IF c.fn = "decode_indexed" THEN Pow2(c.bits) * PalStride(c.depth) ELSE 0

\* C10: for every decoder, removing the trailing N bytes (0 < N < one full row)
\* from a buffer that is long enough yields a result, not None, in which every
\* complete row is as in the untruncated decode.
C10_TruncationKeepsCompleteRows ==
    LET row == IF call.stride = 0 THEN MinRowSize(call, img) ELSE call.stride
        len == Len(img.data_bytes)
    IN  (/\ call.fn # "none"
         /\ ~rgba.is_none
         /\ len >= RowsOffset(call) + img.height * row) =>
            \A n \in 1..(row - 1) :
                LET cut == [img EXCEPT !.data_bytes = Slice(img.data_bytes, 0, len - n)]
                    part == Redecode(call, cut, call.stride)
                IN  /\ ~part.is_none
                    /\ \A y \in 0..(img.height - 1) :
                          (RowsOffset(call) + y * row + MinRowSize(call, img) <= len - n) =>
                              SubSeq(part.bytes, y * img.width * 4 + 1, (y + 1) * img.width * 4)
                              = SubSeq(rgba.bytes, y * img.width * 4 + 1, (y + 1) * img.width * 4)

\* C11: every decoder returns the failure value (None) whenever the image's
\* width or height is absent or zero, for any data bytes and any stride.
C11_MissingGeometryFails ==
    (call.fn # "none" /\ (img.width = 0 \/ img.height = 0)) => rgba = NoneResult

C11_Witness ==
    /\ call.fn = "decode_true_color_rgb332"
    /\ call.stride = 0
    /\ img.width = 1 /\ img.height = 0
    /\ img.data_bytes = <<31>>
    /\ rgba.is_none

\* The nearest integer to c * 255 / (2^N - 1); the denominator is odd, so no
\* quotient lies half way between two integers.
RoundExpand(bits, c) ==
    (2 * c * 255 + (Pow2(bits) - 1)) \div (2 * (Pow2(bits) - 1))

\* C12: the decoders expand every 3-bit, 5-bit and 6-bit channel code c to
\* round(c * 255 / (2^N - 1)), the nearest integer to c * 255 / (2^N - 1).
C12_ExpansionRoundsToNearest ==
    (chan.pc = "decoded" /\ chan.bits \in {3, 5, 6}) =>
        chan.out = RoundExpand(chan.bits, chan.code)

\* The row pitch a call uses: its stride, or the minimal row size for stride 0.
RowPitch(c, im) == IF c.stride = 0 THEN MinRowSize(c, im) ELSE c.stride

\* The N-bit code of pixel x of row y in data whose rows start at 0-based
\* offset base: byte y * pitch + (x * N div 8), N bits from bit (x * N mod 8)
\* counted from the most significant bit.
CodeAt(data, base, pitch, bits, x, y) ==
    LET byte == data[base + y * pitch + ((x * bits) \div 8) + 1]
    IN  (byte \div Pow2(8 - bits - ((x * bits) % 8))) % Pow2(bits)

\* The 8-bit alpha of an N-bit alpha code.
AlphaRule(bits, c) ==
    CASE bits = 1 -> (IF c # 0 THEN 255 ELSE 0)
      [] bits = 2 -> c * 85
      [] bits = 4 -> c * 17
      [] bits = 8 -> c

\* C13: decode_alpha_to_grayscale expands every N-bit alpha code c to an 8-bit
\* alpha in 0..255: 1-bit gives 255 if c # 0 else 0, 2-bit c*85, 4-bit c*17,
\* 8-bit c; every decoded pixel has R = G = B = 0.
C13_AlphaExpansion ==
    (call.fn = "decode_alpha_to_grayscale" /\ ~rgba.is_none) =>
        /\ Len(rgba.bytes) = img.width * img.height * 4
        /\ \A k \in 1..(img.width * img.height) :
              LET px == PixelBytesAt(rgba.bytes, k, 4)
              IN  px[1] = 0 /\ px[2] = 0 /\ px[3] = 0 /\ px[4] \in 0..255
        /\ (Len(img.data_bytes) >= img.height * RowPitch(call, img)) =>
              \A y \in 0..(img.height - 1), x \in 0..(img.width - 1) :
                  PixelBytesAt(rgba.bytes, y * img.width + x + 1, 4)[4]
                  = AlphaRule(call.bits, CodeAt(img.data_bytes, 0, RowPitch(call, img),
                                                call.bits, x, y))

C13_Witness ==
    /\ call.fn = "decode_alpha_to_grayscale"
    /\ call.bits = 2
    /\ call.stride = 0
    /\ img.width = 2 /\ img.height = 2
    /\ img.data_bytes = <<31, 248>>
    /\ rgba = Some(<<0, 0, 0, 0, 0, 0, 0, 85, 0, 0, 0, 255, 0, 0, 0, 255>>)

\* The decoders of the formats without an alpha channel.
OpaqueDecoders == {"decode_true_color_rgb565", "decode_true_color_rgb332",
                   "decode_true_color_rgb888", "decode_true_color_rgba8888"}

\* C14: every pixel returned by a decoder of a format without an alpha channel
\* (RGB565, RGB332, RGB888, XRGB8888) has alpha 255, whatever the input bytes,
\* the fourth byte of XRGB8888 included.
C14_OpaqueFormatsAlpha255 ==
    (call.fn \in OpaqueDecoders /\ ~rgba.is_none) =>
        /\ Len(rgba.bytes) = img.width * img.height * 4
        /\ \A k \in 1..(img.width * img.height) : rgba.bytes[4 * k] = 255

C14_Witness ==
    /\ call.fn = "decode_true_color_rgba8888"
    /\ img.width = 1 /\ img.height = 1
    /\ img.data_bytes = <<31, 248, 31, 31>>
    /\ rgba = Some(<<31, 248, 31, 255>>)

\* Bytes per palette entry declared by the colour-depth tag.
DeclaredEntrySize(depth) == CASE depth = "32" -> 4 [] depth = "16" -> 3 [] OTHER -> 2

C16_PaletteBound ==
    (call.fn = "decode_indexed" /\ ~rgba.is_none) =>
        LET colors == Pow2(call.bits)
            pal_stride == PalStride(call.depth)
            pal_bytes == colors * pal_stride
            palette == LoadPalette(Slice(img.data_bytes, 0, pal_bytes), colors,
                                   pal_stride, call.swap16)
        IN  /\ Len(palette) = colors
            /\ \A i \in (pal_bytes + 1)..Len(img.data_bytes) :
                  \A k \in 0..((8 \div call.bits) - 1) :
                      LET idx == ExtractBits(img.data_bytes[i], call.bits, k * call.bits)
                      IN  idx \in 0..(colors - 1) /\ idx < Len(palette)

C16_Witness ==
    /\ call.fn = "decode_indexed"
    /\ call.bits = 2 /\ call.depth = "8" /\ call.stride = 0
    /\ img.width = 1 /\ img.height = 1
    /\ img.data_bytes = <<29, 58, 87, 116, 145, 174, 203, 232, 248>>
    /\ ExtractBits(248, 2, 0) = 3
    /\ rgba = Some(<<218, 72, 255, 232>>)

PackedDecoders == {"decode_alpha_to_grayscale", "decode_indexed"}

\* The data with every byte outside the first ceil(width * N / 8) bytes of a
\* row (row padding and bytes after the last row) replaced by zero.
PaddingCleared(c, im) ==
    LET base == RowsOffset(c)
        pitch == RowPitch(c, im)
    IN  [i \in 1..Len(im.data_bytes) |->
            IF i <= base THEN im.data_bytes[i]
            ELSE LET o == i - 1 - base
                 IN  IF o \div pitch < im.height /\ o % pitch < MinRowSize(c, im)
                     THEN im.data_bytes[i]
                     ELSE 0]

\* The pixel a packed decoder gives to the N-bit code of a pixel.
PixelOfCode(c, im, code) ==
    IF c.fn = "decode_alpha_to_grayscale" THEN <<0, 0, 0, AlphaExpand(c.bits, code)>>
    ELSE PaletteEntry(Slice(im.data_bytes, code * PalStride(c.depth),
                            (code + 1) * PalStride(c.depth)),
                      PalStride(c.depth), c.swap16)

ByteLiteral(tok) ==
    CASE tok.kind = "hex" /\ Len(tok.digits) = 1 -> <<tok.digits[1]>>
      [] tok.kind = "hex" /\ Len(tok.digits) = 2 -> <<16 * tok.digits[1] + tok.digits[2]>>
      [] tok.kind = "dec" /\ Len(tok.digits) = 1 -> <<tok.digits[1]>>
      [] tok.kind = "dec" /\ Len(tok.digits) = 2 -> <<10 * tok.digits[1] + tok.digits[2]>>
      [] tok.kind = "dec" /\ Len(tok.digits) = 3
            /\ 100 * tok.digits[1] + 10 * tok.digits[2] + tok.digits[3] <= 255
            -> <<100 * tok.digits[1] + 10 * tok.digits[2] + tok.digits[3]>>
      [] tok.kind = "comment" ->
            Flatten([i \in 1..Len(CommentNumbers(tok.text)) |->
                        CommentNumbers(tok.text)[i]])
      [] OTHER -> <<>>

\* The byte literals of a piece of text, in textual order.
ByteLiterals(tokens) == Flatten([i \in 1..Len(tokens) |-> ByteLiteral(tokens[i])])

GuardPositions(body) == {i \in 1..Len(body) : IsGuard(body[i])}

\* A body made of two guarded sub-blocks with different condition texts.
TwoGuardedBlocks(body) ==
    /\ Len(body) >= 3
    /\ body[1].kind = "if"
    /\ body[Len(body)].kind = "endif"
    /\ Cardinality(GuardPositions(body)) = 2
    /\ \A i, j \in GuardPositions(body) : i # j => body[i].text # body[j].text

\* The part of a sub-block's text that precedes its '#endif'.
BeforeEndif(tokens) ==
    LET ends == {i \in 1..Len(tokens) : tokens[i].kind = "endif"}
    IN  IF ends = {} THEN tokens
        ELSE SubSeq(tokens, 1, (CHOOSE i \in ends : \A j \in ends : i <= j) - 1)

\* C18: when the array body consists of two '#if'/'#elif' guarded sub-blocks
\* with different condition texts, pixel_maps has exactly two entries, keyed by
\* the condition text of each guard line, each holding the byte literals between
\* that guard line and its '#endif' in order.
C18_TwoGuardedBlocksTwoMaps ==
    (parsed # NoParse /\ TwoGuardedBlocks(c_file.body)) =>
        LET body == c_file.body
            g2 == CHOOSE i \in GuardPositions(body) : i # 1
        IN  /\ parsed.state = "parsed"
            /\ DOMAIN parsed.pixel_maps = {body[1].text, body[g2].text}
            /\ parsed.pixel_maps[body[1].text]
               = ByteLiterals(BeforeEndif(SubSeq(body, 2, g2 - 1)))
            /\ parsed.pixel_maps[body[g2].text]
               = ByteLiterals(BeforeEndif(SubSeq(body, g2 + 1, Len(body))))

\* The formats of generator.py: enable flag, guard condition, bytes per pixel.
EnabledFormats ==
    {f \in {<<f_a8r3g3b2, Guard8, 2>>, <<f_a8r5g6b5, Guard16LE, 3>>,
            <<f_a8r5g6b5_swap, Guard16Swap, 3>>, <<f_r8g8b8a8, Guard32, 4>>} : f[1]}

\* The byte sequence the generator emitted under a guard condition.
EmittedBytes(content, guard) ==
    LET at == {i \in 1..Len(content) : content[i].kind = "if" /\ content[i].text = guard}
        from == CHOOSE i \in at : TRUE
        data == {j \in from + 1..Len(content) : content[j].kind = "data"}
    IN  content[CHOOSE j \in data : \A k \in data : j <= k].bytes

\* C19: parsing the text produced by generator.py's generate_c_content yields,
\* for each enabled format, a pixel map keyed by that format's guard condition
\* whose bytes are exactly the bytes the generator emitted for that format:
\* width * height * bytes-per-pixel of them, same values, same order.
C19_GeneratorParserRoundTrip ==
    (tool = "generator" /\ parsed # NoParse) =>
        /\ parsed.state = "parsed"
        /\ \A f \in EnabledFormats :
              /\ f[2] \in DOMAIN parsed.pixel_maps
              /\ Len(EmittedBytes(c_content, f[2])) = image_width * image_height * f[3]
              /\ parsed.pixel_maps[f[2]] = EmittedBytes(c_content, f[2])

\* C20: byte extraction appends, in textual order, one byte for each
\* hexadecimal literal 0xN or 0xNN and one byte for each bare decimal literal in
\* 0..255; every other numeric literal of the body (a decimal above 255 or of
\* more than three digits, a hexadecimal of more than two digits) contributes no
\* byte and causes no error.
C20_ByteExtraction ==
    (parsed # NoParse /\ GuardPositions(c_file.body) = {}) =>
        /\ parsed.state = "parsed"
        /\ parsed.pixel_maps = ("Default" :> ByteLiterals(c_file.body))

\* The byte runs of generated content: the positions of its data segments.
ByteRuns(content) == {j \in 1..Len(content) : content[j].kind = "data"}

\* The text of a byte run: its bytes, with the format comment line in front of
\* them when there is one.
RunText(content, j) ==
    (IF j > 1 /\ content[j - 1].kind = "comment"
     THEN SegmentTokens(content[j - 1]) ELSE <<>>)
    \o SegmentTokens(content[j])

\* C21: for an array body whose format variants are sibling or nested
\* '#if'/'#elif'/'#else'/'#endif' guarded byte runs, as generator_simple.py
\* emits them, the parser yields one pixel map per byte run, the run under
\* '#else' included, each holding exactly the bytes of that run's text.
C21_OneMapPerGuardedRun ==
    (tool = "generator_simple" /\ parsed # NoParse) =>
        /\ parsed.state = "parsed"
        /\ Cardinality(DOMAIN parsed.pixel_maps) = Cardinality(ByteRuns(c_content))
        /\ \A j \in ByteRuns(c_content) :
              \E key \in DOMAIN parsed.pixel_maps :
                  parsed.pixel_maps[key] = ByteLiterals(RunText(c_content, j))

(***************************************************************************)
(* Properties of the generated artifact.                                   *)
(***************************************************************************)
\* The colour depths a guard condition names.
GuardDepths(text) ==
    CASE text = Guard8 -> {1, 8}
      [] text \in {Guard16LE, Guard16Swap, Guard16} -> {16}
      [] text = Guard24 -> {24}
      [] text = Guard32 -> {32}
      [] OTHER -> {}

\* The depths generator.py documents as supported.
DocumentedDepths == {1, 8, 16, 24, 32}

\* C22: with all format options enabled, the content produced by generator.py
\* holds a guarded pixel block for every colour depth it documents as
\* supported: 1/8-bit, 16-bit, 24-bit and 32-bit.
C22_BlockForEveryDocumentedDepth ==
    (tool = "generator" /\ c_content # <<>>
        /\ f_a8r3g3b2 /\ f_a8r5g6b5 /\ f_a8r5g6b5_swap /\ f_r8g8b8a8) =>
        \A d \in DocumentedDepths :
            \E i \in 1..Len(c_content) :
                /\ c_content[i].kind = "if"
                /\ d \in GuardDepths(c_content[i].text)

\* C23: for every icon name, width and height, generate_c_content emits the
\* array '<icon_name>_map[]' and the descriptor 'lv_img_dsc_t <icon_name>' with
\* the configured width and height and the data field '<icon_name>_map', and
\* parsing that text returns an image under key <icon_name> with the same
\* width and height, format tag LV_IMG_CF_TRUE_COLOR_ALPHA, and the pixel maps
\* of the '<icon_name>_map' array.
C23_DescriptorRoundTrip ==
    (tool = "generator" /\ parsed # NoParse) =>
        /\ c_file.name = icon_name
        /\ c_file.width = image_width
        /\ c_file.height = image_height
        /\ parsed.state = "parsed"
        /\ parsed.name = icon_name
        /\ parsed.width = image_width
        /\ parsed.height = image_height
        /\ parsed.cf_name = TrueColorAlpha
        /\ parsed.pixel_maps = parse_pixel_maps(c_file.body)

(***************************************************************************)
(* Properties of generator_cli.py main.                                    *)
(***************************************************************************)
\* The R, G, B, A bytes of a sequence of pixels.
RGBABytes(pixels) == Flatten([i \in 1..Len(pixels) |-> pixels[i]])

\* C24: when --name is given and --data holds well-formed hex input of 4*n
\* byte values (n >= 1), main returns exit status 0 and writes an artifact whose
\* 'LV_COLOR_DEPTH == 32' block holds those n pixels' R, G, B, A bytes in input
\* order, padded with transparent pixels or truncated to width*height pixels;
\* only malformed input gives a non-zero status.
C24_CliMainWritesInputPixels ==
    (tool = "generator_cli" /\ exit_status.returned /\ icon_name # <<>>
        /\ ~ParseHexRaises(raw_data) /\ Len(raw_data) >= 4) =>
        /\ exit_status.code = 0
        /\ c_file.written
        /\ BlockBytes(c_content, Guard32)
           = RGBABytes(PadOrTruncate(parse_hex_data(raw_data), PixelCount))

(***************************************************************************)
(* Properties of padding and truncation.                                   *)
(***************************************************************************)
\* The width*height pixels a block is to encode: the first pixels of the
\* input in their order, followed by transparent pixels when the input is short.
ExpectedPixels(data, n) ==
    [i \in 1..n |-> IF i <= Len(data) THEN data[i] ELSE <<0, 0, 0, 0>>]

\* The guard condition a byte run stands under.
RunGuard(content, j) ==
    LET ifs == {i \in 1..(j - 1) : content[i].kind = "if"}
    IN  content[CHOOSE i \in ifs : \A k \in ifs : k <= i].text

\* The bytes of one pixel in the block of generator.py or generator_cli.py
\* under guard g.
PixelEncoding(t, g, p) ==
    IF t = "generator"
    THEN CASE g = Guard8 -> GenPixelA8R3G3B2(p, use_chroma_key, chroma_key_value)
           [] g = Guard16LE -> GenPixelRGB565A8(p, use_chroma_key, chroma_key_value)
           [] g = Guard16Swap -> GenPixelRGB565A8Swap(p, use_chroma_key, chroma_key_value)
           [] g = Guard32 -> GenPixelRGBA32(p, use_chroma_key, chroma_key_value)
    ELSE CASE g = Guard8 -> SimplePixel8(p)
           [] g = Guard16 -> SimplePixel16(p)
           [] g = Guard24 -> SimplePixel24(p)
           [] g = Guard32 -> SimplePixel32(p)

\* C25: every format block emitted by generate_c_content (generator.py) and
\* generate_c_file (generator_cli.py) encodes exactly width*height pixels,
\* whatever the length of the input: a shorter input is extended with
\* transparent pixels at the end, a longer input keeps only its first
\* width*height pixels, and the kept pixels are in their original order.
C25_BlocksEncodeWidthTimesHeightPixels ==
    [][(tool \in {"generator", "generator_cli"} /\ c_content' # c_content) =>
          /\ ByteRuns(c_content') # {}
          /\ \A j \in ByteRuns(c_content') :
                c_content'[j].bytes
                = Flatten([i \in 1..PixelCount |->
                      PixelEncoding(tool, RunGuard(c_content', j),
                                    ExpectedPixels(input_data, PixelCount)[i])])]_vars

\* generator_cli.py has written the blocks of an input longer than the image.
C25_Witness ==
    /\ tool = "generator_cli"
    /\ c_content # <<>>
    /\ Len(input_data) > PixelCount
    /\ Len(BlockBytes(c_content, Guard32)) = 4 * PixelCount

\* C26: generator_cli.generate_c_file has no side effect on its inputs: after
\* the call, for every input length (shorter than, equal to or longer than
\* width*height), the caller's pixel_data list has the same length and contents
\* as before the call.
C26_CliGenerateLeavesInputAlone ==
    [][(tool = "generator_cli" /\ c_content' # c_content) =>
          input_data' = input_data]_vars

\* C27: parse_lvgl_c_file never raises on an array body that contains guards:
\* for any body with at least one '#if '/'#elif ' marker, a body with a comment
\* or unguarded bytes in front of its first guard and a guard line with no
\* following line included, it returns an image object.
C27_GuardedBodyNeverRaises ==
    (parsed # NoParse /\ GuardPositions(c_file.body) # {}
        /\ DescriptorName(c_file.name) # <<>>) =>
        parsed.state = "parsed"

(***************************************************************************)
(* Properties of repeated generation.                                      *)
(***************************************************************************)
\* The content of a single generation at w x h on freshly loaded data.
SingleCall(t, data, w, h) ==
    IF t = "generator"
    THEN GenColorDepthData(PadOrTruncate(data, w * h), w, use_chroma_key,
             chroma_key_value, f_a8r3g3b2, f_a8r5g6b5, f_a8r5g6b5_swap, f_r8g8b8a8)
    ELSE SimpleColorDepthData(PadOrTruncate(data, w * h))

\* C28: generation keeps no cross-call state: for any loaded pixel data and any
\* dimensions (w1,h1), (w2,h2), generating at (w1,h1) and then at (w2,h2)
\* produces in the second call the content of a single call at (w2,h2) on the
\* freshly loaded data (generator.py and generator_simple.py).
C28_NoCrossCallState ==
    (tool \in {"generator", "generator_simple"} /\ c_file.written) =>
        c_content = SingleCall(tool, convert_to_rgba(raw_data, input_format),
                               c_file.width, c_file.height)

(***************************************************************************)
(* Properties of the decoders' output buffers.                             *)
(***************************************************************************)
\* The offset in data_bytes of the last byte a decoder reads for pixel (x, y).
PixelByteIndex(c, im, x, y) ==
    IF c.fn \in PackedDecoders
    THEN RowsOffset(c) + y * RowPitch(c, im) + ((x * c.bits) \div 8)
    ELSE y * RowPitch(c, im) + (x + 1) * BytesPerPixel(c.fn) - 1

\* Pixel (x, y) could not be read: its bytes lie past the end of the data.
Unreadable(c, im, x, y) == PixelByteIndex(c, im, x, y) >= Len(im.data_bytes)

\* C29: whenever a decoder of viewer.py returns a pixel buffer (not None), the
\* buffer has exactly width * height * 4 bytes, for every input including
\* truncated alpha data, and every pixel that could not be read keeps the
\* initial value (0, 0, 0, 0).
C29_BufferSizeAndUnreadPixels ==
    (call.fn # "none" /\ ~rgba.is_none) =>
        /\ Len(rgba.bytes) = img.width * img.height * 4
        /\ \A y \in 0..(img.height - 1), x \in 0..(img.width - 1) :
              Unreadable(call, img, x, y) =>
                  PixelBytesAt(rgba.bytes, y * img.width + x + 1, 4) = <<0, 0, 0, 0>>

\* Every returned buffer has width * height * 4 bytes.
BufferSizeHolds ==
    (call.fn # "none" /\ ~rgba.is_none) =>
        Len(rgba.bytes) = img.width * img.height * 4

\* At a row pitch of at least the minimal row size the unread pixels stay zero.
UnreadPixelsAtFullPitch ==
    (call.fn # "none" /\ ~rgba.is_none
        /\ RowPitch(call, img) >= MinRowSize(call, img)) =>
        \A y \in 0..(img.height - 1), x \in 0..(img.width - 1) :
            Unreadable(call, img, x, y) =>
                PixelBytesAt(rgba.bytes, y * img.width + x + 1, 4) = <<0, 0, 0, 0>>

\* C30: every decoder of viewer.py, decode_indexed included, returns None when
\* given a non-zero stride smaller than the format's minimal row size, so that
\* no decode reads rows that overlap in the packed data.
C30_SmallStrideGivesNone ==
    (call.fn # "none" /\ call.stride > 0
        /\ call.stride < MinRowSize(call, img)) =>
        rgba.is_none

\* The decoders other than decode_indexed refuse such a stride.
SmallStrideRefusedExceptIndexed ==
    (call.fn \notin {"none", "decode_indexed"} /\ call.stride > 0
        /\ call.stride < MinRowSize(call, img)) =>
        rgba.is_none

====
